---- MODULE Spec2Model ----
(***************************************************************************)
(* Tripline: a file-integrity monitor.  A baseline record per path is kept *)
(* in a bolt store organised in buckets ("filesets"); verification re-runs *)
(* the recorded checks; a password-derived signature over a whole bucket   *)
(* makes the stored baselines tamper-evident.                              *)
(*                                                                         *)
(* Byte strings (bucket names, keys, values, digests, ciphertexts) are     *)
(* sequences of tokens; a token stands for a run of bytes that the model   *)
(* never splits.  Concatenation of byte strings is \o.                     *)
(***************************************************************************)
EXTENDS Integers, Sequences, FiniteSets, TLC

VARIABLES
    fs,         \* the filesystem: path -> file state
    committed,  \* the bolt file: bucket name -> bucket (key -> value)
    boltTx,     \* TriplineDb.boltTx: "nil", "ro" or "rw"
    buckets,    \* the buckets as the open transaction sees them
    closed,     \* the bolt handle was closed
    ret,        \* what the last operation was given and what it returned
    signed,     \* history: fileset -> what the last successful sign saw
    ndrift      \* history: the number of filesystem changes so far

vars == <<fs, committed, boltTx, buckets, closed, ret, signed, ndrift>>

(***************************************************************************)
(* Bounds of the model.                                                    *)
(***************************************************************************)
\* Number of filesystem changes in one behaviour.
MaxDrift == 1
\* Largest file size the filesystem changes produce.
MaxSize == 2
\* Latest modification time the filesystem changes produce.
MaxTime == 2

(***************************************************************************)
(* Bytes, strings and their order.                                         *)
(***************************************************************************)
\* The tokens a key or a name is made of, in ascending byte order.
Alphabet == <<"/", "_", "a", "b", "d", "f", "s", "signatures", "t", "xFF">>

Code(c) == CHOOSE i \in 1..Len(Alphabet) : Alphabet[i] = c

\* bytes.Compare(a, b) < 0, the order bolt keeps keys in.
RECURSIVE BytesLess(_, _)
BytesLess(a, b) ==
    IF a = <<>> THEN b # <<>>
    ELSE IF b = <<>> THEN FALSE
    ELSE IF Head(a) = Head(b) THEN BytesLess(Tail(a), Tail(b))
    ELSE Code(Head(a)) < Code(Head(b))

\* strings.HasPrefix(s, prefix)
HasPrefix(s, prefix) ==
    /\ Len(prefix) <= Len(s)
    /\ SubSeq(s, 1, Len(prefix)) = prefix

\* The keys of a bucket in cursor order (First, Next, ...).
RECURSIVE SortKeys(_)
SortKeys(ks) ==
    IF ks = {} THEN <<>>
    ELSE LET k == CHOOSE x \in ks : \A y \in ks \ {x} : BytesLess(x, y)
         IN <<k>> \o SortKeys(ks \ {k})

Cursor(bkt) == SortKeys(DOMAIN bkt)

EmptyBucket == [k \in {} |-> <<>>]

\* bkt.Put(key, value)
Put(bkt, key, value) == [k \in DOMAIN bkt \cup {key} |-> IF k = key THEN value ELSE bkt[k]]

\* bkt.Delete(key): deleting an absent key is not an error in bolt
Delete(bkt, key) == [k \in DOMAIN bkt \ {key} |-> bkt[k]]

\* tx.DeleteBucket(name)
DropBucket(bk, name) == [n \in DOMAIN bk \ {name} |-> bk[n]]

\* The reserved bucket of the signatures.
sigbucket == <<"_", "signatures">>

\* strings.HasPrefix(name, "_")
Reserved(name) == HasPrefix(name, <<"_">>)

(***************************************************************************)
(* Values a check hands to the store (Go side) and reads back (decoded).   *)
(* One record shape for all of them:                                       *)
(*   t  "nil" | "string" | "strings" ([]string) | "ownership" (a struct)  *)
(*      | "array" ([]interface{}) | "map" (map[string]interface{})         *)
(*      | "bool" | "number"                                                *)
(*   s  the string, number or boolean text                                 *)
(*   l  the elements of a list, each [t, s]                                *)
(*   m  the members of a struct or map, each [k, t, s]                     *)
(***************************************************************************)
GoNil == [t |-> "nil", s |-> "", l |-> <<>>, m |-> <<>>]

GoString(x) == [t |-> "string", s |-> x, l |-> <<>>, m |-> <<>>]

GoStrings(xs) ==
    [t |-> "strings", s |-> "",
     l |-> [i \in 1..Len(xs) |-> [t |-> "string", s |-> xs[i]]], m |-> <<>>]

GoOwnership(user, group) ==
    [t |-> "ownership", s |-> "", l |-> <<>>,
     m |-> << [k |-> "User", t |-> "string", s |-> user],
              [k |-> "Group", t |-> "string", s |-> group] >>]

\* v, ok := m[key] on a decoded map: the last member of that name
MapHas(d, key) == \E i \in 1..Len(d.m) : d.m[i].k = key

MapGet(d, key) ==
    LET i == CHOOSE j \in 1..Len(d.m) :
                 d.m[j].k = key /\ \A h \in (j+1)..Len(d.m) : d.m[h].k # key
    IN [t |-> d.m[i].t, s |-> d.m[i].s]

(***************************************************************************)
(* encoding/json as the store uses it.  The JSON text is a token sequence: *)
(* punctuation, the literals, number tokens, and a string literal as the   *)
(* three tokens  " content "  .                                            *)
(***************************************************************************)
Q == "\""

\* A byte that is not valid UTF-8 (a file name may hold any byte but / and NUL).
InvalidUTF8 == {"xFF"}

\* json.Marshal writes a string coerced to valid UTF-8: an invalid byte
\* becomes the replacement rune U+FFFD.
ToValidUTF8(str) == IF str \in InvalidUTF8 THEN "uFFFD" ELSE str

JsonString(str) == <<Q, ToValidUTF8(str), Q>>

NumberTokens == {"0", "1", "2", "3"}

\* The check names in the order json.Marshal writes the keys of a map (sorted).
NameOrder ==
    <<"child", "content", "modtime", "nocheck", "ownership", "permissions",
      "sha256", "size">>

RECURSIVE JoinComma(_)
JoinComma(parts) ==
    IF Len(parts) = 0 THEN <<>>
    ELSE IF Len(parts) = 1 THEN parts[1]
    ELSE parts[1] \o <<",">> \o JoinComma(Tail(parts))

MarshalData(d) ==
    CASE d.t = "nil" -> <<"null">>
      [] d.t = "string" -> JsonString(d.s)
      [] d.t = "strings" ->
            <<"[">> \o JoinComma([i \in 1..Len(d.l) |-> JsonString(d.l[i].s)]) \o <<"]">>
      [] d.t = "ownership" ->
            <<"{">> \o JoinComma([i \in 1..Len(d.m) |->
                        JsonString(d.m[i].k) \o <<":">> \o JsonString(d.m[i].s)])
                    \o <<"}">>

\* json.Marshal(rec) of a TriplineRecord
Marshal(rec) ==
    LET names == SelectSeq(NameOrder, LAMBDA n : n \in DOMAIN rec.Data)
    IN <<"{">> \o JsonString("isDir") \o <<":", IF rec.IsDir THEN "true" ELSE "false", ",">>
       \o JsonString("checks") \o <<":", "[">>
       \o JoinComma([i \in 1..Len(rec.Checks) |-> JsonString(rec.Checks[i])])
       \o <<"]", ",">>
       \o JsonString("data") \o <<":", "{">>
       \o JoinComma([i \in 1..Len(names) |->
              JsonString(names[i]) \o <<":">> \o MarshalData(rec.Data[names[i]])])
       \o <<"}", "}">>

Tok(v, i) == IF i <= Len(v) THEN v[i] ELSE "EOF"

Bad == [ok |-> FALSE, next |-> 0, val |-> GoNil]

\* A scalar at position i: null, true, false, a number or a string literal.
ParseScalar(v, i) ==
    LET c == Tok(v, i) IN
    IF c = "null" THEN [ok |-> TRUE, next |-> i + 1, val |-> GoNil]
    ELSE IF c \in {"true", "false"}
        THEN [ok |-> TRUE, next |-> i + 1,
              val |-> [t |-> "bool", s |-> c, l |-> <<>>, m |-> <<>>]]
    ELSE IF c \in NumberTokens
        THEN [ok |-> TRUE, next |-> i + 1,
              val |-> [t |-> "number", s |-> c, l |-> <<>>, m |-> <<>>]]
    ELSE IF c = Q /\ Tok(v, i + 2) = Q /\ Tok(v, i + 1) \notin {Q, "EOF"}
        THEN [ok |-> TRUE, next |-> i + 3, val |-> GoString(v[i + 1])]
    ELSE Bad

NoList == [ok |-> FALSE, next |-> 0, l |-> <<>>]

NoMembers == [ok |-> FALSE, next |-> 0, m |-> <<>>]

\* The elements of an array after its "[": scalars up to the closing "]".
RECURSIVE ParseElems(_, _, _)
RECURSIVE ElemsAfter(_, _, _)
ParseElems(v, i, acc) ==
    IF Tok(v, i) = "]" /\ Len(acc) = 0 THEN [ok |-> TRUE, next |-> i + 1, l |-> acc]
    ELSE ElemsAfter(v, ParseScalar(v, i), acc)

\* ... what follows the element e
ElemsAfter(v, e, acc) ==
    IF ~e.ok THEN NoList
    ELSE IF Tok(v, e.next) = "]"
         THEN [ok |-> TRUE, next |-> e.next + 1, l |-> Append(acc, [t |-> e.val.t, s |-> e.val.s])]
    ELSE IF Tok(v, e.next) = ","
         THEN ParseElems(v, e.next + 1, Append(acc, [t |-> e.val.t, s |-> e.val.s]))
    ELSE NoList

\* The members of an object after its "{": "key": scalar pairs up to "}".
RECURSIVE ParseMembers(_, _, _)
RECURSIVE MembersAfterKey(_, _, _)
RECURSIVE MembersAfter(_, _, _, _)
ParseMembers(v, i, acc) ==
    IF Tok(v, i) = "}" /\ Len(acc) = 0 THEN [ok |-> TRUE, next |-> i + 1, m |-> acc]
    ELSE MembersAfterKey(v, ParseScalar(v, i), acc)

\* ... the value of the key k
MembersAfterKey(v, k, acc) ==
    IF ~k.ok \/ k.val.t # "string" \/ Tok(v, k.next) # ":" THEN NoMembers
    ELSE MembersAfter(v, k.val.s, ParseScalar(v, k.next + 1), acc)

\* ... what follows the member key: e
MembersAfter(v, key, e, acc) ==
    IF ~e.ok THEN NoMembers
    ELSE IF Tok(v, e.next) = "}"
         THEN [ok |-> TRUE, next |-> e.next + 1,
               m |-> Append(acc, [k |-> key, t |-> e.val.t, s |-> e.val.s])]
    ELSE IF Tok(v, e.next) = ","
         THEN ParseMembers(v, e.next + 1, Append(acc, [k |-> key, t |-> e.val.t, s |-> e.val.s]))
    ELSE NoMembers

ArrayValue(a) ==
    IF a.ok THEN [ok |-> TRUE, next |-> a.next,
                  val |-> [t |-> "array", s |-> "", l |-> a.l, m |-> <<>>]]
    ELSE Bad

MapValue(o) ==
    IF o.ok THEN [ok |-> TRUE, next |-> o.next,
                  val |-> [t |-> "map", s |-> "", l |-> <<>>, m |-> o.m]]
    ELSE Bad

\* A JSON value as interface{}: a scalar, an array of scalars or an object of
\* scalars (deeper nesting is not modelled and is refused).
ParseValue(v, i) ==
    IF Tok(v, i) = "[" THEN ArrayValue(ParseElems(v, i + 1, <<>>))
    ELSE IF Tok(v, i) = "{" THEN MapValue(ParseMembers(v, i + 1, <<>>))
    ELSE ParseScalar(v, i)

ZeroRecord == [IsDir |-> FALSE, Checks |-> <<>>, Data |-> [n \in {} |-> GoNil]]

NoRecord == [ok |-> FALSE, next |-> 0, rec |-> ZeroRecord]

NoData == [ok |-> FALSE, next |-> 0, data |-> ZeroRecord.Data]

\* The "data" object after its "{": "name": value pairs into rec.Data.
RECURSIVE ParseDataMembers(_, _, _, _)
RECURSIVE DataAfterKey(_, _, _)
RECURSIVE DataAfter(_, _, _, _)
ParseDataMembers(v, i, data, first) ==
    IF Tok(v, i) = "}" /\ first THEN [ok |-> TRUE, next |-> i + 1, data |-> data]
    ELSE DataAfterKey(v, ParseScalar(v, i), data)

\* ... the value of the key k
DataAfterKey(v, k, data) ==
    IF ~k.ok \/ k.val.t # "string" \/ Tok(v, k.next) # ":" THEN NoData
    ELSE DataAfter(v, k.val.s, ParseValue(v, k.next + 1), data)

\* ... what follows the member key: e
DataAfter(v, key, e, data) ==
    IF ~e.ok THEN NoData
    ELSE IF Tok(v, e.next) = "}"
         THEN [ok |-> TRUE, next |-> e.next + 1,
               data |-> [n \in DOMAIN data \cup {key} |-> IF n = key THEN e.val ELSE data[n]]]
    ELSE IF Tok(v, e.next) = ","
         THEN ParseDataMembers(v, e.next + 1,
                  [n \in DOMAIN data \cup {key} |-> IF n = key THEN e.val ELSE data[n]], FALSE)
    ELSE NoData

\* The values of the three fields of the struct, each of its Go type.
ChecksField(rec, a) ==
    IF a.ok /\ \A h \in 1..Len(a.l) : a.l[h].t = "string"
    THEN [ok |-> TRUE, next |-> a.next,
          rec |-> [rec EXCEPT !.Checks = [h \in 1..Len(a.l) |-> a.l[h].s]]]
    ELSE NoRecord

DataField(rec, o) ==
    IF o.ok THEN [ok |-> TRUE, next |-> o.next, rec |-> [rec EXCEPT !.Data = o.data]]
    ELSE NoRecord

\* a key the struct does not have: its value is skipped
SkippedField(rec, e) ==
    IF e.ok THEN [ok |-> TRUE, next |-> e.next, rec |-> rec] ELSE NoRecord

\* The value at j of the member named key (null leaves the field as it is).
FieldValue(v, key, j, rec) ==
    IF Tok(v, j) = "null" /\ key \in {"isDir", "checks", "data"}
    THEN [ok |-> TRUE, next |-> j + 1, rec |-> rec]
    ELSE IF key = "isDir"
         THEN IF Tok(v, j) \in {"true", "false"}
              THEN [ok |-> TRUE, next |-> j + 1, rec |-> [rec EXCEPT !.IsDir = (v[j] = "true")]]
              ELSE NoRecord
    ELSE IF key = "checks"
         THEN IF Tok(v, j) = "[" THEN ChecksField(rec, ParseElems(v, j + 1, <<>>))
              ELSE NoRecord
    ELSE IF key = "data"
         THEN IF Tok(v, j) = "{" THEN DataField(rec, ParseDataMembers(v, j + 1, rec.Data, TRUE))
              ELSE NoRecord
    ELSE SkippedField(rec, ParseValue(v, j))

FieldAfterKey(v, k, rec) ==
    IF ~k.ok \/ k.val.t # "string" \/ Tok(v, k.next) # ":" THEN NoRecord
    ELSE FieldValue(v, k.val.s, k.next + 1, rec)

\* One member of the record object starting at its key.
ParseField(v, i, rec) == FieldAfterKey(v, ParseScalar(v, i), rec)

RECURSIVE ParseFields(_, _, _, _)
RECURSIVE FieldsAfter(_, _)
ParseFields(v, i, rec, first) ==
    IF Tok(v, i) = "}" /\ first THEN [ok |-> TRUE, next |-> i + 1, rec |-> rec]
    ELSE FieldsAfter(v, ParseField(v, i, rec))

\* ... what follows the member f
FieldsAfter(v, f) ==
    IF ~f.ok THEN NoRecord
    ELSE IF Tok(v, f.next) = "}" THEN [ok |-> TRUE, next |-> f.next + 1, rec |-> f.rec]
    ELSE IF Tok(v, f.next) = "," THEN ParseFields(v, f.next + 1, f.rec, FALSE)
    ELSE NoRecord

\* the whole text must have been read
WholeText(v, r) ==
    IF r.ok /\ r.next = Len(v) + 1 THEN [ok |-> TRUE, rec |-> r.rec]
    ELSE [ok |-> FALSE, rec |-> ZeroRecord]

\* json.Unmarshal(v, &entry.Record): [ok, rec]
Unmarshal(v) ==
    IF v = <<"null">> THEN [ok |-> TRUE, rec |-> ZeroRecord]
    ELSE IF Tok(v, 1) # "{" THEN [ok |-> FALSE, rec |-> ZeroRecord]
    ELSE WholeText(v, ParseFields(v, 2, ZeroRecord, TRUE))


(***************************************************************************)
(* The filesystem.  A file state is                                        *)
(*   kind "none" | "file" | "dir",  size 0..,  rev (which bytes, at that   *)
(*   size),  mtime 1..,  uid, gid,  perm "644" | "755" | "000"              *)
(* A path is a byte string; a name inside a directory is one token.        *)
(***************************************************************************)
PathD  == <<"/", "d">>
PathDA == <<"/", "d", "/", "a">>
PathDX == <<"/", "d", "/", "xFF">>
PathDa == <<"/", "d", "a">>

FsPaths == {PathD, PathDA, PathDX, PathDa}

\* The working directory of the process.
Cwd == PathD

Missing ==
    [kind |-> "none", size |-> 0, rev |-> 0, mtime |-> 1, uid |-> "0", gid |-> "0",
     perm |-> "644"]

RegularFile ==
    [kind |-> "file", size |-> 1, rev |-> 0, mtime |-> 1, uid |-> "1000", gid |-> "100",
     perm |-> "644"]

Directory ==
    [kind |-> "dir", size |-> 0, rev |-> 0, mtime |-> 1, uid |-> "0", gid |-> "0",
     perm |-> "755"]

\* The process does not run as root: a file without permission bits cannot
\* be opened, a directory without them cannot be listed.
Readable(fi) == fi.perm # "000"

\* filepath.Abs(fn) of a clean name
Abs(fn) == IF fn # <<>> /\ Head(fn) = "/" THEN fn ELSE Cwd \o <<"/">> \o fn

\* filepath.Join(fqn, name)
Join(fqn, name) == fqn \o <<"/", name>>

\* os.Stat(fqn): [ok, fi]
Stat(f, fqn) ==
    IF fqn \in DOMAIN f /\ f[fqn].kind # "none" THEN [ok |-> TRUE, fi |-> f[fqn]]
    ELSE [ok |-> FALSE, fi |-> Missing]

RECURSIVE SortNames(_)
SortNames(ns) ==
    IF ns = {} THEN <<>>
    ELSE LET n == CHOOSE x \in ns : \A y \in ns \ {x} : Code(x) < Code(y)
         IN <<n>> \o SortNames(ns \ {n})

\* ioutil.ReadDir(fqn): [ok, names], the names sorted
ReadDir(f, fqn) ==
    IF ~Stat(f, fqn).ok \/ f[fqn].kind # "dir" \/ ~Readable(f[fqn])
    THEN [ok |-> FALSE, names |-> <<>>]
    ELSE [ok |-> TRUE,
          names |-> SortNames({q[Len(q)] : q \in {r \in DOMAIN f :
                        /\ f[r].kind # "none"
                        /\ Len(r) = Len(fqn) + 2
                        /\ SubSeq(r, 1, Len(fqn) + 1) = fqn \o <<"/">>}})]

\* strconv.FormatInt(n, 10) for the sizes of the model
Decimal == <<"0", "1", "2", "3", "4", "5">>

FormatInt(n) == Decimal[n + 1]

\* strconv.ParseInt(str, 10, 64): [ok, n]; a sign and leading zeros are accepted
ParseInt(str) ==
    IF \E i \in 1..Len(Decimal) : Decimal[i] = str
    THEN [ok |-> TRUE, n |-> (CHOOSE i \in 1..Len(Decimal) : Decimal[i] = str) - 1]
    ELSE IF str \in {"+1", "01"} THEN [ok |-> TRUE, n |-> 1]
    ELSE [ok |-> FALSE, n |-> 0]

\* mtime.Format(time.RFC3339Nano) for the times of the model
TimeRepr ==
    <<"2020-01-01T00:00:01Z", "2020-01-01T00:00:01.5Z", "2020-01-01T00:00:02Z",
      "2020-01-01T00:00:03Z">>

FormatTime(tm) == TimeRepr[tm]

\* time.Parse(time.RFC3339Nano, str): [ok]
ParseTime(str) == [ok |-> \E i \in 1..Len(TimeRepr) : TimeRepr[i] = str]

\* fmt.Sprintf("%s", fi.Mode())
ModeString(fi) ==
    CASE fi.kind = "dir" /\ fi.perm = "755" -> "drwxr-xr-x"
      [] fi.kind = "dir" /\ fi.perm = "644" -> "drw-r--r--"
      [] fi.kind = "dir" /\ fi.perm = "000" -> "d---------"
      [] fi.kind # "dir" /\ fi.perm = "755" -> "-rwxr-xr-x"
      [] fi.kind # "dir" /\ fi.perm = "000" -> "----------"
      [] OTHER -> "-rw-r--r--"

\* user.LookupId / user.LookupGroupId: ids without an entry resolve to nothing
LookupId(uid) ==
    CASE uid = "0" -> [ok |-> TRUE, name |-> "root"]
      [] uid = "1000" -> [ok |-> TRUE, name |-> "alice"]
      [] OTHER -> [ok |-> FALSE, name |-> ""]

LookupGroupId(gid) ==
    CASE gid = "0" -> [ok |-> TRUE, name |-> "wheel"]
      [] gid = "100" -> [ok |-> TRUE, name |-> "users"]
      [] OTHER -> [ok |-> FALSE, name |-> ""]

\* fmt.Sprintf("%x", sha256 of the file's bytes): one digest per content
HexDigest ==
    <<"e3b0c4", "5feceb", "6b86b2", "d4735e", "4e0740", "4b2277", "ef2d12", "e7f6c0",
      "7902699", "2c6242">>

Sha256Hex(fi) == HexDigest[2 * fi.size + fi.rev + 1]

(***************************************************************************)
(* The check plugins.  prepareCheck returns [ok, data]; executeCheck       *)
(* returns the error text, "" for nil.                                     *)
(***************************************************************************)
noChecker_prepareCheck(f, fqn, fi) == [ok |-> TRUE, data |-> GoNil]

noChecker_executeCheck(f, fqn, data, fi) == ""

fileSizeChecker_prepareCheck(f, fqn, fi) == [ok |-> TRUE, data |-> GoString(FormatInt(fi.size))]

\* Variants of the checks that the properties below must tell apart.
fileSizeChecker_executeCheck_ShrinkOnly(f, fqn, data, fi) ==
    IF data.t # "string" THEN "size was not recorded"
    ELSE IF ~ParseInt(data.s).ok THEN "size was not recorded"
    ELSE IF fi.size < ParseInt(data.s).n THEN "expected actual size"
    ELSE ""

fileSizeChecker_executeCheck(f, fqn, data, fi) ==
    IF data.t # "string" THEN "size was not recorded"
    ELSE IF ~ParseInt(data.s).ok THEN "size was not recorded"
    ELSE IF fi.size # ParseInt(data.s).n THEN "expected actual size"
    ELSE ""

modTimeChecker_prepareCheck(f, fqn, fi) == [ok |-> TRUE, data |-> GoString(FormatTime(fi.mtime))]

modTimeChecker_executeCheck(f, fqn, data, fi) ==
    IF data.t # "string" THEN "modtime not recorded"
    ELSE IF ~ParseTime(data.s).ok THEN "modtime not recorded"
    ELSE IF FormatTime(fi.mtime) # data.s THEN "expected actual modtime"
    ELSE ""

\* statUnix(fi): the names of the owner and the group, "" when not resolved
statUnix(fi) == [User |-> LookupId(fi.uid).name, Group |-> LookupGroupId(fi.gid).name]

ownershipChecker_prepareCheck(f, fqn, fi) ==
    [ok |-> TRUE, data |-> GoOwnership(statUnix(fi).User, statUnix(fi).Group)]

ownershipChecker_executeCheck(f, fqn, data, fi) ==
    IF data.t # "map" THEN "data corrupt"
    ELSE IF ~MapHas(data, "User") THEN "data corrupt"
    ELSE IF MapGet(data, "User").t # "string" THEN "data corrupt"
    ELSE IF ~MapHas(data, "Group") THEN "data corrupt"
    ELSE IF MapGet(data, "Group").t # "string" THEN "data corrupt"
    ELSE IF \/ MapGet(data, "User").s # statUnix(fi).User
            \/ MapGet(data, "Group").s # statUnix(fi).Group
         THEN "expected actual owner"
    ELSE ""

permissionsChecker_prepareCheck(f, fqn, fi) == [ok |-> TRUE, data |-> GoString(ModeString(fi))]

permissionsChecker_executeCheck(f, fqn, data, fi) ==
    IF data.t # "string" THEN "corrupt data, expected string"
    ELSE IF data.s # ModeString(fi) THEN "expected actual mode"
    ELSE ""

\* os.Open(fqn) and the digest of what is read
sha256Checker_prepareCheck(f, fqn, fi) ==
    IF ~Stat(f, fqn).ok \/ ~Readable(f[fqn]) THEN [ok |-> FALSE, data |-> GoNil]
    ELSE [ok |-> TRUE, data |-> GoString(Sha256Hex(f[fqn]))]

sha256Checker_executeCheck(f, fqn, data, fi) ==
    IF data.t # "string" THEN "data corrupt"
    ELSE IF ~Stat(f, fqn).ok \/ ~Readable(f[fqn]) THEN "open file"
    ELSE IF data.s # Sha256Hex(f[fqn]) THEN "expected actual hash"
    ELSE ""

\* childList(fqn)
childList(f, fqn) == ReadDir(f, fqn)

childChecker_prepareCheck(f, fqn, fi) ==
    [ok |-> childList(f, fqn).ok, data |-> GoStrings(childList(f, fqn).names)]

childChecker_executeCheck(f, fqn, data, fi) ==
    IF data.t # "array" THEN "corrupt child data"
    ELSE IF ~childList(f, fqn).ok THEN "read dir"
    ELSE LET actual == childList(f, fqn).names
             \* the expected names up to the first element that is no string
             firstBad == IF \E i \in 1..Len(data.l) : data.l[i].t # "string"
                         THEN CHOOSE i \in 1..Len(data.l) :
                                  /\ data.l[i].t # "string"
                                  /\ \A j \in 1..(i - 1) : data.l[j].t = "string"
                         ELSE 0
             diff == {data.l[i].s : i \in 1..Len(data.l)}
             newChildren == {actual[i] : i \in 1..Len(actual)} \ diff
             removed == diff \ {actual[i] : i \in 1..Len(actual)}
         IN IF firstBad # 0 THEN "corrupt child data"
            ELSE IF newChildren # {} \/ removed # {} THEN "new child removed child"
            ELSE ""

\* The registries: check name -> checker, "" when the name is not registered.
fileChecks(name) ==
    CASE name = "nocheck" -> "noChecker"
      [] name = "size" -> "fileSizeChecker"
      [] name = "ownership" -> "ownershipChecker"
      [] name = "content" -> "noChecker"
      [] name = "modtime" -> "modTimeChecker"
      [] name = "permissions" -> "permissionsChecker"
      [] name = "sha256" -> "sha256Checker"
      [] OTHER -> ""

dirChecks(name) ==
    CASE name = "nocheck" -> "noChecker"
      [] name = "ownership" -> "ownershipChecker"
      [] name = "child" -> "childChecker"
      [] name = "modtime" -> "modTimeChecker"
      [] name = "permissions" -> "permissionsChecker"
      [] OTHER -> ""

\* check.prepareCheck(fqn, fi) through the fileChecker interface
prepareCheck(checker, f, fqn, fi) ==
    CASE checker = "fileSizeChecker" -> fileSizeChecker_prepareCheck(f, fqn, fi)
      [] checker = "ownershipChecker" -> ownershipChecker_prepareCheck(f, fqn, fi)
      [] checker = "modTimeChecker" -> modTimeChecker_prepareCheck(f, fqn, fi)
      [] checker = "permissionsChecker" -> permissionsChecker_prepareCheck(f, fqn, fi)
      [] checker = "sha256Checker" -> sha256Checker_prepareCheck(f, fqn, fi)
      [] checker = "childChecker" -> childChecker_prepareCheck(f, fqn, fi)
      [] OTHER -> noChecker_prepareCheck(f, fqn, fi)

\* checker.executeCheck(fqn, data, fi) through the fileChecker interface
executeCheck(checker, f, fqn, data, fi) ==
    CASE checker = "fileSizeChecker" -> fileSizeChecker_executeCheck(f, fqn, data, fi)
      [] checker = "ownershipChecker" -> ownershipChecker_executeCheck(f, fqn, data, fi)
      [] checker = "modTimeChecker" -> modTimeChecker_executeCheck(f, fqn, data, fi)
      [] checker = "permissionsChecker" -> permissionsChecker_executeCheck(f, fqn, data, fi)
      [] checker = "sha256Checker" -> sha256Checker_executeCheck(f, fqn, data, fi)
      [] checker = "childChecker" -> childChecker_executeCheck(f, fqn, data, fi)
      [] OTHER -> noChecker_executeCheck(f, fqn, data, fi)


(***************************************************************************)
(* crypto.Encrypt / crypto.Decrypt: an authenticated symmetric scheme      *)
(* under a key derived from the password.  The ciphertext is a byte        *)
(* string that opens only under the password it was made with.             *)
(***************************************************************************)
Encrypt(password, plain) == <<"sealed", password>> \o plain

\* [ok, plain]
Decrypt(password, cipher) ==
    IF Len(cipher) >= 2 /\ cipher[1] = "sealed" /\ cipher[2] = password
    THEN [ok |-> TRUE, plain |-> SubSeq(cipher, 3, Len(cipher))]
    ELSE [ok |-> FALSE, plain |-> <<>>]

\* sha256 of a byte stream, taken to be free of collisions: the digest
\* determines the stream.
Sum256(stream) == <<"sha256">> \o stream

(***************************************************************************)
(* The record store (db.TriplineDb).  Every operation is an operator of    *)
(* the transaction mode tx and the buckets bk the transaction sees, and    *)
(* returns the buckets afterwards with the error: <<>> for nil, else the   *)
(* chain of error codes, outermost first.                                  *)
(***************************************************************************)
Nil == <<>>

RecordExists == <<"db/005">>

Writable(tx) == tx = "rw"

\* tx.CreateBucketIfNotExists(name)
CreateBucketIfNotExists(bk, name) ==
    IF name \in DOMAIN bk THEN bk
    ELSE [n \in DOMAIN bk \cup {name} |-> IF n = name THEN EmptyBucket ELSE bk[n]]

\* Variants of store operations that the properties below must tell apart.
DeleteFileset_DropSignature(tx, bk, fileset) ==
    IF tx = "nil" \/ ~Writable(tx) THEN [bk |-> bk, err |-> <<"db/085">>]
    ELSE IF fileset \notin DOMAIN bk THEN [bk |-> bk, err |-> <<"db/020">>]
    ELSE LET bk1 == DropBucket(bk, fileset) IN
         [bk |-> IF sigbucket \in DOMAIN bk1
                 THEN [bk1 EXCEPT ![sigbucket] = Delete(@, fileset)] ELSE bk1,
          err |-> Nil]


\* A variant that writes over the key whatever overwrite says.
AddTriplineRecord_Clobber(tx, bk, path, rec, fileset, overwrite) ==
    IF tx = "nil" \/ ~Writable(tx) THEN [bk |-> bk, err |-> <<"db/085">>]
    ELSE IF fileset = <<>> THEN [bk |-> bk, err |-> <<"db/010">>]
    ELSE LET bk1 == CreateBucketIfNotExists(bk, fileset) IN
         IF path = <<>> THEN [bk |-> bk1, err |-> <<"db/040">>]
         ELSE [bk |-> [bk1 EXCEPT ![fileset] = Put(@, path, Marshal(rec))], err |-> Nil]

\* [bk, err]; the bucket is created before the key is looked at
AddTriplineRecord(tx, bk, path, rec, fileset, overwrite) ==
    IF tx = "nil" \/ ~Writable(tx) THEN [bk |-> bk, err |-> <<"db/085">>]
    ELSE IF fileset = <<>> THEN [bk |-> bk, err |-> <<"db/010">>]
    ELSE LET bk1 == CreateBucketIfNotExists(bk, fileset) IN
         IF path \in DOMAIN bk1[fileset] /\ ~overwrite
         THEN [bk |-> bk1, err |-> RecordExists]
         ELSE IF path = <<>> THEN [bk |-> bk1, err |-> <<"db/040">>]
         ELSE [bk |-> [bk1 EXCEPT ![fileset] = Put(@, path, Marshal(rec))], err |-> Nil]

\* A variant that opens the fileset the way add does, creating it.
DeleteTriplineRecord_CreatesFileset(tx, bk, path, fileset, skip) ==
    IF tx = "nil" \/ ~Writable(tx) THEN [bk |-> bk, err |-> <<"db/085">>]
    ELSE IF fileset \notin DOMAIN bk /\ ~skip THEN [bk |-> bk, err |-> <<"db/020">>]
    ELSE LET bk1 == CreateBucketIfNotExists(bk, fileset) IN
         IF path \notin DOMAIN bk1[fileset] /\ ~skip THEN [bk |-> bk1, err |-> <<"db/050">>]
         ELSE [bk |-> [bk1 EXCEPT ![fileset] = Delete(@, path)], err |-> Nil]

DeleteTriplineRecord(tx, bk, path, fileset, skip) ==
    IF tx = "nil" \/ ~Writable(tx) THEN [bk |-> bk, err |-> <<"db/085">>]
    ELSE IF fileset \notin DOMAIN bk
         THEN IF skip THEN [bk |-> bk, err |-> Nil] ELSE [bk |-> bk, err |-> <<"db/020">>]
    ELSE IF path \notin DOMAIN bk[fileset] /\ ~skip THEN [bk |-> bk, err |-> <<"db/050">>]
    ELSE [bk |-> [bk EXCEPT ![fileset] = Delete(@, path)], err |-> Nil]

\* The cursor loop of QueryTriplineRecords over the keys left, in order.
RECURSIVE queryLoop(_, _, _, _)
RECURSIVE queryEntry(_, _, _, _, _)
queryLoop(bkt, keys, pathPrefix, result) ==
    IF Len(keys) = 0 THEN [err |-> Nil, entries |-> result]
    ELSE IF HasPrefix(Head(keys), pathPrefix)
         THEN queryEntry(bkt, keys, pathPrefix, result, Unmarshal(bkt[Head(keys)]))
         ELSE queryLoop(bkt, Tail(keys), pathPrefix, result)

\* ... the value under the first key, decoded as u
queryEntry(bkt, keys, pathPrefix, result, u) ==
    IF ~u.ok THEN [err |-> <<"db/070">>, entries |-> <<>>]
    ELSE queryLoop(bkt, Tail(keys), pathPrefix,
                   Append(result, [Record |-> u.rec, Path |-> Head(keys)]))

\* A variant that returns every entry of the fileset, whatever the prefix.
QueryTriplineRecords_NoFilter(tx, bk, fileset, pathPrefix) ==
    IF tx = "nil" THEN [err |-> <<"db/080">>, entries |-> <<>>]
    ELSE IF fileset \notin DOMAIN bk THEN [err |-> <<"db/020">>, entries |-> <<>>]
    ELSE queryLoop(bk[fileset], Cursor(bk[fileset]), <<>>, <<>>)

\* [err, entries]
QueryTriplineRecords(tx, bk, fileset, pathPrefix) ==
    IF tx = "nil" THEN [err |-> <<"db/080">>, entries |-> <<>>]
    ELSE IF fileset \notin DOMAIN bk THEN [err |-> <<"db/020">>, entries |-> <<>>]
    ELSE queryLoop(bk[fileset], Cursor(bk[fileset]), pathPrefix, <<>>)

ListTriplineRecords(tx, bk, fileset) == QueryTriplineRecords(tx, bk, fileset, <<>>)

\* A variant that names every bucket, the reserved ones too.
ListFilesets_All(tx, bk) ==
    IF tx = "nil" THEN [err |-> <<"db/080">>, names |-> <<>>]
    ELSE [err |-> Nil, names |-> SortKeys(DOMAIN bk)]

\* [err, names]
ListFilesets(tx, bk) ==
    IF tx = "nil" THEN [err |-> <<"db/080">>, names |-> <<>>]
    ELSE [err |-> Nil,
          names |-> SelectSeq(SortKeys(DOMAIN bk), LAMBDA n : ~Reserved(n))]

DeleteFileset(tx, bk, fileset) ==
    IF tx = "nil" \/ ~Writable(tx) THEN [bk |-> bk, err |-> <<"db/085">>]
    ELSE IF fileset \notin DOMAIN bk THEN [bk |-> bk, err |-> <<"db/020">>]
    ELSE [bk |-> DropBucket(bk, fileset), err |-> Nil]

\* A variant that copies under any transaction, read-only ones too.
CopyFileset_AnyTx(tx, bk, src, target) ==
    IF tx = "nil" THEN [bk |-> bk, err |-> <<"db/085">>]
    ELSE IF src \notin DOMAIN bk THEN [bk |-> bk, err |-> <<"db/020">>]
    ELSE IF target \in DOMAIN bk \/ target = <<>> THEN [bk |-> bk, err |-> <<"db/110">>]
    ELSE [bk |-> [n \in DOMAIN bk \cup {target} |-> IF n = target THEN bk[src] ELSE bk[n]],
          err |-> Nil]

\* A variant that replaces a target that is there.
CopyFileset_Overwrite(tx, bk, src, target) ==
    IF tx = "nil" \/ ~Writable(tx) THEN [bk |-> bk, err |-> <<"db/085">>]
    ELSE IF src \notin DOMAIN bk THEN [bk |-> bk, err |-> <<"db/020">>]
    ELSE IF target = <<>> THEN [bk |-> bk, err |-> <<"db/110">>]
    ELSE [bk |-> [n \in DOMAIN bk \cup {target} |-> IF n = target THEN bk[src] ELSE bk[n]],
          err |-> Nil]

\* A variant whose cursor loop starts at the second pair.
CopyFileset_SkipsFirst(tx, bk, src, target) ==
    IF tx = "nil" \/ ~Writable(tx) THEN [bk |-> bk, err |-> <<"db/085">>]
    ELSE IF src \notin DOMAIN bk THEN [bk |-> bk, err |-> <<"db/020">>]
    ELSE IF target \in DOMAIN bk \/ target = <<>> THEN [bk |-> bk, err |-> <<"db/110">>]
    ELSE [bk |-> [n \in DOMAIN bk \cup {target} |->
                     IF n = target
                     THEN [k \in {x \in DOMAIN bk[src] : \E y \in DOMAIN bk[src] : BytesLess(y, x)}
                              |-> bk[src][k]]
                     ELSE bk[n]],
          err |-> Nil]

CopyFileset(tx, bk, src, target) ==
    IF tx = "nil" \/ ~Writable(tx) THEN [bk |-> bk, err |-> <<"db/085">>]
    ELSE IF src \notin DOMAIN bk THEN [bk |-> bk, err |-> <<"db/020">>]
    ELSE IF target \in DOMAIN bk \/ target = <<>> THEN [bk |-> bk, err |-> <<"db/110">>]
    ELSE [bk |-> [n \in DOMAIN bk \cup {target} |-> IF n = target THEN bk[src] ELSE bk[n]],
          err |-> Nil]

\* h.Write(k); h.Write(v) for every pair in cursor order: the stream hashed
RECURSIVE hashStream(_, _)
hashStream(bkt, keys) ==
    IF Len(keys) = 0 THEN <<>>
    ELSE Head(keys) \o bkt[Head(keys)] \o hashStream(bkt, Tail(keys))

calcBucketHash(srcBkt) == Sum256(hashStream(srcBkt, Cursor(srcBkt)))

\* A variant that asks for a writable transaction.
VerifyFilesetSignature_WriteRequired(tx, bk, fileset, password) ==
    IF tx = "nil" \/ ~Writable(tx) THEN <<"db/085">>
    ELSE IF fileset \notin DOMAIN bk THEN <<"db/020">>
    ELSE IF sigbucket \notin DOMAIN bk THEN <<"db/170">>
    ELSE IF fileset \notin DOMAIN bk[sigbucket] THEN <<"db/180">>
    ELSE LET d == Decrypt(password, bk[sigbucket][fileset]) IN
         IF ~d.ok THEN <<"db/190">>
         ELSE IF d.plain # calcBucketHash(bk[fileset]) THEN <<"db/200">>
         ELSE Nil

\* A variant that looks for the signature before it looks for the fileset.
VerifyFilesetSignature_SignatureFirst(tx, bk, fileset, password) ==
    IF tx = "nil" THEN <<"db/080">>
    ELSE IF sigbucket \notin DOMAIN bk THEN <<"db/170">>
    ELSE IF fileset \notin DOMAIN bk[sigbucket] THEN <<"db/180">>
    ELSE IF fileset \notin DOMAIN bk THEN <<"db/020">>
    ELSE LET d == Decrypt(password, bk[sigbucket][fileset]) IN
         IF ~d.ok THEN <<"db/190">>
         ELSE IF d.plain # calcBucketHash(bk[fileset]) THEN <<"db/200">>
         ELSE Nil

VerifyFilesetSignature_NoCompare(tx, bk, fileset, password) ==
    IF tx = "nil" THEN <<"db/080">>
    ELSE IF fileset \notin DOMAIN bk THEN <<"db/020">>
    ELSE IF sigbucket \notin DOMAIN bk THEN <<"db/170">>
    ELSE IF fileset \notin DOMAIN bk[sigbucket] THEN <<"db/180">>
    ELSE IF ~Decrypt(password, bk[sigbucket][fileset]).ok THEN <<"db/190">>
    ELSE Nil

VerifyFilesetSignature_OneError(tx, bk, fileset, password) ==
    IF tx = "nil" THEN <<"db/080">>
    ELSE IF fileset \notin DOMAIN bk THEN <<"db/020">>
    ELSE IF sigbucket \notin DOMAIN bk THEN <<"db/170">>
    ELSE IF fileset \notin DOMAIN bk[sigbucket] THEN <<"db/180">>
    ELSE LET d == Decrypt(password, bk[sigbucket][fileset]) IN
         IF ~d.ok \/ d.plain # calcBucketHash(bk[fileset]) THEN <<"db/200">>
         ELSE Nil

VerifyFilesetSignature_Unsigned(tx, bk, fileset, password) ==
    IF tx = "nil" THEN <<"db/080">>
    ELSE IF fileset \notin DOMAIN bk THEN <<"db/020">>
    ELSE IF sigbucket \notin DOMAIN bk \/ fileset \notin DOMAIN bk[sigbucket] THEN Nil
    ELSE LET d == Decrypt(password, bk[sigbucket][fileset]) IN
         IF ~d.ok THEN <<"db/190">>
         ELSE IF d.plain # calcBucketHash(bk[fileset]) THEN <<"db/200">>
         ELSE Nil

VerifyFilesetSignature_StaleDigest(tx, bk, fileset, password) ==
    IF tx = "nil" THEN <<"db/080">>
    ELSE IF fileset \notin DOMAIN bk THEN <<"db/020">>
    ELSE IF sigbucket \notin DOMAIN bk THEN <<"db/170">>
    ELSE IF fileset \notin DOMAIN bk[sigbucket] THEN <<"db/180">>
    ELSE LET d == Decrypt(password, bk[sigbucket][fileset]) IN
         IF ~d.ok THEN <<"db/190">>
         ELSE IF d.plain # Sum256(<<>>) THEN <<"db/200">>
         ELSE Nil

SignFileset_AlwaysUpdate(tx, bk, fileset, password, update) ==
    IF tx = "nil" \/ ~Writable(tx) THEN [bk |-> bk, err |-> <<"db/085">>]
    ELSE LET bk1 == CreateBucketIfNotExists(bk, sigbucket) IN
         IF fileset \notin DOMAIN bk1 THEN [bk |-> bk1, err |-> <<"db/020">>]
         ELSE [bk |-> [bk1 EXCEPT ![sigbucket] =
                          Put(@, fileset, Encrypt(password, calcBucketHash(bk1[fileset])))],
               err |-> Nil]

SignFileset(tx, bk, fileset, password, update) ==
    IF tx = "nil" \/ ~Writable(tx) THEN [bk |-> bk, err |-> <<"db/085">>]
    ELSE LET bk1 == CreateBucketIfNotExists(bk, sigbucket) IN
         IF fileset \in DOMAIN bk1[sigbucket] /\ ~update
         THEN [bk |-> bk1, err |-> <<"db/140">>]
         ELSE IF fileset \notin DOMAIN bk1 THEN [bk |-> bk1, err |-> <<"db/020">>]
         ELSE LET hash == calcBucketHash(bk1[fileset])
                  signature == Encrypt(password, hash)
              IN [bk |-> [bk1 EXCEPT ![sigbucket] = Put(@, fileset, signature)],
                  err |-> Nil]

\* the error
VerifyFilesetSignature(tx, bk, fileset, password) ==
    IF tx = "nil" THEN <<"db/080">>
    ELSE IF fileset \notin DOMAIN bk THEN <<"db/020">>
    ELSE LET hash == calcBucketHash(bk[fileset]) IN
         IF sigbucket \notin DOMAIN bk THEN <<"db/170">>
         ELSE IF fileset \notin DOMAIN bk[sigbucket] THEN <<"db/180">>
         ELSE LET d == Decrypt(password, bk[sigbucket][fileset]) IN
              IF ~d.ok THEN <<"db/190">>
              ELSE IF d.plain # hash THEN <<"db/200">>
              ELSE Nil


(***************************************************************************)
(* The record engine (package proc).  A check-list string is the sequence  *)
(* of its comma-separated pieces (strings.Split), so "" is <<"">>.         *)
(* log.Fatalf ends the process: the result carries fatal = TRUE.           *)
(***************************************************************************)
\* strings.ToLower(strings.TrimSpace(c)) for the pieces of the model
Normalize(c) ==
    CASE c = " Size" -> "size"
      [] c = "SHA256" -> "sha256"
      [] c = "Child " -> "child"
      [] OTHER -> c

\* A variant that passes over the empty pieces of the list.
splitChecks_SkipEmpty(checks, validSet) ==
    LET result == [i \in 1..Len(checks) |-> Normalize(checks[i])]
        found(n) == IF validSet = "dir" THEN dirChecks(n) # "" ELSE fileChecks(n) # ""
    IN IF \A i \in 1..Len(result) : result[i] = "" \/ found(result[i])
       THEN [ok |-> TRUE, checks |-> SelectSeq(result, LAMBDA c : c # "")]
       ELSE [ok |-> FALSE, checks |-> <<>>]

\* [ok, checks]: validSet is "file" or "dir"
splitChecks(checks, validSet) ==
    LET result == [i \in 1..Len(checks) |-> Normalize(checks[i])]
        found(n) == IF validSet = "dir" THEN dirChecks(n) # "" ELSE fileChecks(n) # ""
    IN IF \A i \in 1..Len(result) : found(result[i])
       THEN [ok |-> TRUE, checks |-> result]
       ELSE [ok |-> FALSE, checks |-> <<>>]

parseFileChecks(checks) == splitChecks(checks, "file")

parseDirChecks(checks) == splitChecks(checks, "dir")

\* The loop over the check names of addFileOrDir: [ok, data], data the map
\* filled so far.
RECURSIVE prepareLoop(_, _, _, _, _, _)
RECURSIVE prepared(_, _, _, _, _, _, _)
prepareLoop(f, fqn, fi, isDir, names, data) ==
    IF Len(names) = 0 THEN [ok |-> TRUE, data |-> data]
    ELSE prepared(f, fqn, fi, isDir, names, data,
                  prepareCheck(IF isDir THEN dirChecks(Head(names)) ELSE fileChecks(Head(names)),
                               f, fqn, fi))

\* ... rec.Data[checkName] = checkData, or the error of the check
prepared(f, fqn, fi, isDir, names, data, p) ==
    IF ~p.ok THEN [ok |-> FALSE, data |-> data]
    ELSE prepareLoop(f, fqn, fi, isDir, Tail(names),
             [n \in DOMAIN data \cup {Head(names)} |->
                 IF n = Head(names) THEN p.data ELSE data[n]])

\* the flags of add that addFileOrDir hands down unchanged
Flags(fileset, recursive, overwrite, skip, filechecks, dirchecks) ==
    [fileset |-> fileset, recursive |-> recursive, overwrite |-> overwrite, skip |-> skip,
     filechecks |-> filechecks, dirchecks |-> dirchecks]

RECURSIVE addFileOrDir(_, _, _, _, _, _, _, _, _, _)
RECURSIVE addRecord(_, _, _, _, _, _, _, _)
RECURSIVE addRecursive(_, _, _, _, _, _)
RECURSIVE addChildren(_, _, _, _, _, _)
RECURSIVE addChild(_, _, _, _, _, _)

\* A variant that gives a directory the checks of the files.
addFileOrDir_FileChecksOnly(f, tx, bk, fn, fileset, recursive, overwrite, skip, filechecks, dirchecks) ==
    IF ~Stat(f, Abs(fn)).ok THEN [bk |-> bk, err |-> <<"proc/040">>]
    ELSE addRecord(f, tx, bk, Abs(fn), f[Abs(fn)].kind = "dir", filechecks,
                   prepareLoop(f, Abs(fn), f[Abs(fn)], FALSE, filechecks,
                               [n \in {} |-> GoNil]),
                   Flags(fileset, recursive, overwrite, skip, filechecks, dirchecks))

\* [bk, err]
addFileOrDir(f, tx, bk, fn, fileset, recursive, overwrite, skip, filechecks, dirchecks) ==
    IF ~Stat(f, Abs(fn)).ok THEN [bk |-> bk, err |-> <<"proc/040">>]
    ELSE addRecord(f, tx, bk, Abs(fn), f[Abs(fn)].kind = "dir",
                   IF f[Abs(fn)].kind = "dir" THEN dirchecks ELSE filechecks,
                   prepareLoop(f, Abs(fn), f[Abs(fn)], f[Abs(fn)].kind = "dir",
                               IF f[Abs(fn)].kind = "dir" THEN dirchecks ELSE filechecks,
                               [n \in {} |-> GoNil]),
                   Flags(fileset, recursive, overwrite, skip, filechecks, dirchecks))

\* ... tripDb.AddTriplineRecord(fqn, rec, fileset, overwrite) of the record prepared
addRecord(f, tx, bk, fqn, isDir, checks, p, o) ==
    IF ~p.ok THEN [bk |-> bk, err |-> <<IF isDir THEN "proc/050" ELSE "proc/060">>]
    ELSE addRecursive(f, tx, fqn, isDir,
                      AddTriplineRecord(tx, bk, fqn,
                          [IsDir |-> isDir, Checks |-> checks, Data |-> p.data],
                          o.fileset, o.overwrite),
                      o)

\* A variant for which a record that exists is an error whatever skip says.
addRecursive_NoSkip(f, tx, fqn, isDir, a, o) ==
    IF a.err # Nil
    THEN [bk |-> a.bk, err |-> <<"proc/070">> \o a.err]
    ELSE IF isDir /\ o.recursive
         THEN IF ~ReadDir(f, fqn).ok THEN [bk |-> a.bk, err |-> <<"readdir">>]
              ELSE addChildren(f, tx, a.bk, fqn, ReadDir(f, fqn).names, o)
    ELSE [bk |-> a.bk, err |-> Nil]

\* A variant that leaves the children of a skipped directory alone.
addRecursive_SkipSubtree(f, tx, fqn, isDir, a, o) ==
    IF a.err # Nil /\ ~(a.err = RecordExists /\ o.skip)
    THEN [bk |-> a.bk, err |-> <<"proc/070">> \o a.err]
    ELSE IF a.err # Nil THEN [bk |-> a.bk, err |-> Nil]
    ELSE IF isDir /\ o.recursive
         THEN IF ~ReadDir(f, fqn).ok THEN [bk |-> a.bk, err |-> <<"readdir">>]
              ELSE addChildren(f, tx, a.bk, fqn, ReadDir(f, fqn).names, o)
    ELSE [bk |-> a.bk, err |-> Nil]

\* ... the children of a directory, when the record is in (or skipped)
addRecursive(f, tx, fqn, isDir, a, o) ==
    IF a.err # Nil /\ ~(a.err = RecordExists /\ o.skip)
    THEN [bk |-> a.bk, err |-> <<"proc/070">> \o a.err]
    ELSE IF isDir /\ o.recursive
         THEN IF ~ReadDir(f, fqn).ok THEN [bk |-> a.bk, err |-> <<"readdir">>]
              ELSE addChildren(f, tx, a.bk, fqn, ReadDir(f, fqn).names, o)
    ELSE [bk |-> a.bk, err |-> Nil]

\* the loop over the children of addFileOrDir
addChildren(f, tx, bk, fqn, names, o) ==
    IF Len(names) = 0 THEN [bk |-> bk, err |-> Nil]
    ELSE addChild(f, tx, fqn, names, o,
                  addFileOrDir(f, tx, bk, Join(fqn, Head(names)), o.fileset, o.recursive,
                               o.overwrite, o.skip, o.filechecks, o.dirchecks))

addChild(f, tx, fqn, names, o, r) ==
    IF r.err # Nil THEN r ELSE addChildren(f, tx, r.bk, fqn, Tail(names), o)

\* the loop over the file names of AddFiles
RECURSIVE addLoop(_, _, _, _, _)
RECURSIVE addNext(_, _, _, _, _)
addLoop(f, tx, bk, fileNames, o) ==
    IF Len(fileNames) = 0 THEN [bk |-> bk, err |-> Nil]
    ELSE addNext(f, tx, fileNames, o,
                 addFileOrDir(f, tx, bk, Head(fileNames), o.fileset, o.recursive,
                              o.overwrite, o.skip, o.filechecks, o.dirchecks))

addNext(f, tx, fileNames, o, r) ==
    IF r.err # Nil THEN r ELSE addLoop(f, tx, r.bk, Tail(fileNames), o)

\* an operation that returned: the process did not end in log.Fatalf
Returned(r) == [fatal |-> FALSE] @@ r

\* log.Fatalf(err, ...): the process ends, the buckets are as they were
Fatalf(bk, err) == [bk |-> bk, err |-> err, fatal |-> TRUE]

\* an error wrapped in the one of the engine: fmt.Errorf(errNNN, ..., err)
Errorf(code, r) == IF r.err # Nil THEN [r EXCEPT !.err = <<code>> \o r.err] ELSE r

\* [bk, err, fatal]
AddFiles(f, tx, bk, fileNames, fileset, recursive, overwrite, skip, filechecks, dirchecks) ==
    IF Reserved(fileset) THEN Fatalf(bk, <<"proc/005">>)
    ELSE IF ~parseFileChecks(filechecks).ok THEN Fatalf(bk, <<"proc/010", "proc/030">>)
    ELSE IF ~parseDirChecks(dirchecks).ok THEN Fatalf(bk, <<"proc/020", "proc/030">>)
    ELSE Returned(addLoop(f, tx, bk, fileNames,
                          Flags(fileset, recursive, overwrite, skip,
                                parseFileChecks(filechecks).checks,
                                parseDirChecks(dirchecks).checks)))

\* A variant of the loop that counts an entry once however many checks fail.
RECURSIVE checkLoop_StopAtFirst(_, _, _, _)
checkLoop_StopAtFirst(f, entry, fi, names) ==
    IF Len(names) = 0 THEN 0
    ELSE LET checker == IF entry.Record.IsDir THEN dirChecks(Head(names))
                        ELSE fileChecks(Head(names))
             data == IF Head(names) \in DOMAIN entry.Record.Data
                     THEN entry.Record.Data[Head(names)] ELSE GoNil
         IN IF checker = "" \/ executeCheck(checker, f, entry.Path, data, fi) # "" THEN 1
            ELSE checkLoop_StopAtFirst(f, entry, fi, Tail(names))

\* The loop over a list of names that is not the list of the record.
RECURSIVE namesLoop(_, _, _, _)
namesLoop(f, entry, fi, names) ==
    IF Len(names) = 0 THEN 0
    ELSE LET checker == IF entry.Record.IsDir THEN dirChecks(Head(names))
                        ELSE fileChecks(Head(names))
             data == IF Head(names) \in DOMAIN entry.Record.Data
                     THEN entry.Record.Data[Head(names)] ELSE GoNil
             failed == \/ checker = ""
                       \/ executeCheck(checker, f, entry.Path, data, fi) # ""
         IN (IF failed THEN 1 ELSE 0) + namesLoop(f, entry, fi, Tail(names))

\* A variant that runs the checks that add takes by default now.
checkLoop_Defaults(f, entry, fi, names) ==
    namesLoop(f, entry, fi,
              IF entry.Record.IsDir THEN <<"child", "modtime", "ownership", "permissions">>
              ELSE <<"size", "modtime", "ownership", "permissions", "sha256">>)

\* The loop over entry.Record.Checks of verifyFile: the failures counted.
RECURSIVE checkLoop(_, _, _, _)
checkLoop(f, entry, fi, names) ==
    IF Len(names) = 0 THEN 0
    ELSE LET checker == IF entry.Record.IsDir THEN dirChecks(Head(names))
                        ELSE fileChecks(Head(names))
             \* Data[checkName] of a name the map lacks is nil
             data == IF Head(names) \in DOMAIN entry.Record.Data
                     THEN entry.Record.Data[Head(names)] ELSE GoNil
             failed == \/ checker = ""
                       \/ executeCheck(checker, f, entry.Path, data, fi) # ""
         IN (IF failed THEN 1 ELSE 0) + checkLoop(f, entry, fi, Tail(names))

\* The failures of one entry of verifyFile: gone, of another kind, or its checks.
entryFails(f, entry, st) ==
    IF ~st.ok THEN 1
    ELSE IF (st.fi.kind = "dir") # entry.Record.IsDir THEN 1
    ELSE checkLoop(f, entry, st.fi, entry.Record.Checks)

\* The loop over the entries of verifyFile: the failures counted.
RECURSIVE entryLoop(_, _)
entryLoop(f, entries) ==
    IF Len(entries) = 0 THEN 0
    ELSE entryFails(f, Head(entries), Stat(f, Head(entries).Path))
            + entryLoop(f, Tail(entries))

\* ... the entries the query gave, or its error
verifyEntries(f, q) ==
    IF q.err # Nil THEN [fails |-> 0, err |-> <<"proc/120">> \o q.err]
    ELSE [fails |-> entryLoop(f, q.entries), err |-> Nil]

\* [fails, err]
verifyFile(f, tx, bk, fqn, fileset) ==
    verifyEntries(f, QueryTriplineRecords(tx, bk, fileset, fqn))

\* the loop over the file names of VerifyFiles
RECURSIVE verifyLoop(_, _, _, _, _, _)
RECURSIVE verifyNext(_, _, _, _, _, _, _)
verifyLoop(f, tx, bk, fileNames, fileset, totalFails) ==
    IF Len(fileNames) = 0 THEN [fails |-> totalFails, err |-> Nil]
    ELSE verifyNext(f, tx, bk, fileNames, fileset, totalFails,
                    verifyFile(f, tx, bk, Abs(Head(fileNames)), fileset))

verifyNext(f, tx, bk, fileNames, fileset, totalFails, r) ==
    IF r.err # Nil THEN [fails |-> 0, err |-> r.err]
    ELSE verifyLoop(f, tx, bk, Tail(fileNames), fileset, totalFails + r.fails)

\* A variant that verifies the whole fileset whatever paths are given.
VerifyFiles_WholeFileset(f, tx, bk, fileNames, fileset) ==
    IF Reserved(fileset) THEN [fails |-> 0, err |-> <<"proc/005">>, fatal |-> TRUE]
    ELSE Returned(verifyFile(f, tx, bk, <<>>, fileset))

\* [fails, err, fatal]
VerifyFiles(f, tx, bk, fileNames, fileset) ==
    IF Reserved(fileset) THEN [fails |-> 0, err |-> <<"proc/005">>, fatal |-> TRUE]
    ELSE IF Len(fileNames) = 0 THEN Returned(verifyFile(f, tx, bk, <<>>, fileset))
    ELSE Returned(verifyLoop(f, tx, bk, fileNames, fileset, 0))

\* [err, fatal]
ListRecords(tx, bk, fileset) ==
    IF Reserved(fileset) THEN [err |-> <<"proc/005">>, fatal |-> TRUE]
    ELSE Returned(Errorf("proc/080", [err |-> ListTriplineRecords(tx, bk, fileset).err]))

\* [bk, err, fatal]
DeleteSet(tx, bk, fileset) ==
    IF Reserved(fileset) THEN Fatalf(bk, <<"proc/005">>)
    ELSE Returned(Errorf("proc/090", DeleteFileset(tx, bk, fileset)))

\* [err, fatal]
Listsets(tx, bk) ==
    Returned(Errorf("proc/100", [err |-> ListFilesets(tx, bk).err]))

\* A variant that looks at the name of the source only.
CopySet_UncheckedTarget(tx, bk, from, to) ==
    IF Reserved(from) THEN Fatalf(bk, <<"proc/005">>)
    ELSE Returned(Errorf("proc/110", CopyFileset(tx, bk, from, to)))

\* [bk, err, fatal]
CopySet(tx, bk, from, to) ==
    IF Reserved(from) \/ Reserved(to) THEN Fatalf(bk, <<"proc/005">>)
    ELSE Returned(Errorf("proc/110", CopyFileset(tx, bk, from, to)))

\* the loop over the entries found of DeleteFiles
RECURSIVE deleteEntries(_, _, _, _)
RECURSIVE deleteEntry(_, _, _, _)
deleteEntries(tx, bk, entries, fileset) ==
    IF Len(entries) = 0 THEN [bk |-> bk, err |-> Nil]
    ELSE deleteEntry(tx, entries, fileset,
                     DeleteTriplineRecord(tx, bk, Head(entries).Path, fileset, TRUE))

deleteEntry(tx, entries, fileset, r) ==
    IF r.err # Nil THEN [bk |-> r.bk, err |-> <<"proc/130">>]
    ELSE deleteEntries(tx, r.bk, Tail(entries), fileset)

\* the loop over the file names of DeleteFiles
RECURSIVE deleteLoop(_, _, _, _)
RECURSIVE deleteFound(_, _, _, _, _)
RECURSIVE deleteNext(_, _, _, _)
deleteLoop(tx, bk, fileNames, fileset) ==
    IF Len(fileNames) = 0 THEN [bk |-> bk, err |-> Nil]
    ELSE deleteFound(tx, bk, fileNames, fileset,
                     QueryTriplineRecords(tx, bk, fileset, Abs(Head(fileNames))))

\* ... the entries the query gave, or its error
deleteFound(tx, bk, fileNames, fileset, q) ==
    IF q.err # Nil THEN [bk |-> bk, err |-> <<"proc/120">> \o q.err]
    ELSE deleteNext(tx, fileNames, fileset, deleteEntries(tx, bk, q.entries, fileset))

deleteNext(tx, fileNames, fileset, r) ==
    IF r.err # Nil THEN r ELSE deleteLoop(tx, r.bk, Tail(fileNames), fileset)

\* The loop of a delete that removes the key of each path and no other.
RECURSIVE deleteExact(_, _, _, _)
deleteExact(tx, bk, fileNames, fileset) ==
    IF Len(fileNames) = 0 THEN [bk |-> bk, err |-> Nil]
    ELSE IF fileset \notin DOMAIN bk THEN [bk |-> bk, err |-> <<"proc/120", "db/020">>]
    ELSE deleteExact(tx, DeleteTriplineRecord(tx, bk, Abs(Head(fileNames)), fileset, TRUE).bk,
                     Tail(fileNames), fileset)

\* A variant that deletes the entry of each path, not the entries under it.
DeleteFiles_ExactPath(tx, bk, fileNames, fileset) ==
    IF Reserved(fileset) THEN Fatalf(bk, <<"proc/005">>)
    ELSE Returned(deleteExact(tx, bk, fileNames, fileset))

\* [bk, err, fatal]
DeleteFiles(tx, bk, fileNames, fileset) ==
    IF Reserved(fileset) THEN Fatalf(bk, <<"proc/005">>)
    ELSE Returned(deleteLoop(tx, bk, fileNames, fileset))

\* [bk, err, fatal]
SignSet(tx, bk, fileset, password, update) ==
    IF Reserved(fileset) THEN Fatalf(bk, <<"proc/005">>)
    ELSE Returned(Errorf("proc/150", SignFileset(tx, bk, fileset, password, update)))

\* [err, fatal]
VerifySetSignature(tx, bk, fileset, password) ==
    IF Reserved(fileset) THEN [err |-> <<"proc/005">>, fatal |-> TRUE]
    ELSE Returned(Errorf("proc/140",
                         [err |-> VerifyFilesetSignature(tx, bk, fileset, password)]))


(***************************************************************************)
(* The state after construction: the filesystem as found, an empty store.  *)
(***************************************************************************)
InitialFs ==
    [q \in FsPaths |->
        CASE q = PathD -> Directory
          [] q = PathDX -> [RegularFile EXCEPT !.size = 0]
          [] OTHER -> RegularFile]

NoBuckets == [n \in {} |-> EmptyBucket]

NoRet ==
    [cmd |-> "none", fileset |-> <<>>, names |-> <<>>, pw |-> "", opts |-> <<>>,
     err |-> Nil, fails |-> 0, fatal |-> FALSE]

Init ==
    /\ fs = InitialFs
    /\ committed = NoBuckets
    /\ boltTx = "nil"
    /\ buckets = NoBuckets
    /\ closed = FALSE
    /\ ret = NoRet
    /\ signed = [n \in {} |-> <<>>]
    /\ ndrift = 0

(***************************************************************************)
(* The commands of main().  Each run of the program opens the store,       *)
(* begins a transaction (writable for add, delete, deleteset, copyset and  *)
(* sign), runs one engine operation, commits when it returned nil and      *)
(* rolls back otherwise; a process that log.Fatalf ends never commits.     *)
(***************************************************************************)
Handle == <<boltTx, closed>>

\* what the run leaves behind for the next one to see
Report(cmd, fileset, names, pw, opts, r) ==
    [cmd |-> cmd, fileset |-> fileset, names |-> names, pw |-> pw, opts |-> opts,
     err |-> r.err, fails |-> IF "fails" \in DOMAIN r THEN r.fails ELSE 0,
     fatal |-> r.fatal]

\* A variant that commits whatever the operation returned.
RunWrite_CommitAlways(cmd, fileset, names, pw, opts, r) ==
    /\ committed' = r.bk
    /\ buckets' = committed'
    /\ ret' = Report(cmd, fileset, names, pw, opts, r)
    /\ UNCHANGED <<fs, Handle, ndrift>>

\* must(tripDb.Begin(true)); mustCommitOrRollback(r, tripDb)
RunWrite(cmd, fileset, names, pw, opts, r) ==
    /\ committed' = IF r.err = Nil /\ ~r.fatal THEN r.bk ELSE committed
    /\ buckets' = committed'
    /\ ret' = Report(cmd, fileset, names, pw, opts, r)
    /\ UNCHANGED <<fs, Handle, ndrift>>

\* must(tripDb.Begin(false)); defer must(tripDb.Rollback()); must(r)
RunRead(cmd, fileset, names, pw, opts, r) ==
    /\ ret' = Report(cmd, fileset, names, pw, opts, r)
    /\ UNCHANGED <<fs, committed, buckets, Handle, signed, ndrift>>

CmdAdd(fileNames, fileset, recursive, overwrite, skip, filechecks, dirchecks) ==
    /\ RunWrite("add", fileset, fileNames, "",
                <<recursive, overwrite, skip, filechecks, dirchecks>>,
                AddFiles(fs, "rw", committed, fileNames, fileset, recursive, overwrite,
                         skip, filechecks, dirchecks))
    /\ UNCHANGED signed

CmdDelete(fileNames, fileset) ==
    /\ RunWrite("delete", fileset, fileNames, "", <<>>,
                DeleteFiles("rw", committed, fileNames, fileset))
    /\ UNCHANGED signed

\* main logs the count and exits with a status that tells 0 from more
CmdVerify(fileNames, fileset) ==
    RunRead("verify", fileset, fileNames, "", <<>>,
            VerifyFiles(fs, "ro", committed, fileNames, fileset))

CmdList(fileset) ==
    RunRead("list", fileset, <<>>, "", <<>>, ListRecords("ro", committed, fileset))

CmdDeleteSet(fileset) ==
    /\ RunWrite("deleteset", fileset, <<>>, "", <<>>, DeleteSet("rw", committed, fileset))
    /\ UNCHANGED signed

CmdListSets ==
    RunRead("listsets", <<>>, <<>>, "", <<>>, Listsets("ro", committed))

CmdCopySet(from, to) ==
    /\ RunWrite("copyset", from, <<to>>, "", <<>>, CopySet("rw", committed, from, to))
    /\ UNCHANGED signed

\* signed: what was signed, under which password, when the signature went in
CmdSign(fileset, password, update) ==
    /\ RunWrite("sign", fileset, <<>>, password, <<update>>,
                SignSet("rw", committed, fileset, password, update))
    /\ signed' = IF ret'.err = Nil /\ ~ret'.fatal
                 THEN [n \in DOMAIN signed \cup {fileset} |->
                         IF n = fileset
                         THEN [pw |-> password, content |-> committed[fileset],
                               sig |-> committed'[sigbucket][fileset]]
                         ELSE signed[n]]
                 ELSE signed

CmdVerifySig(fileset, password) ==
    RunRead("verifysig", fileset, <<>>, password, <<>>,
            VerifySetSignature("ro", committed, fileset, password))

(***************************************************************************)
(* Direct writes to the bolt file between two runs of the program: what    *)
(* the signature is there to detect.                                       *)
(***************************************************************************)
Tampered(cmd, fileset, key) ==
    [NoRet EXCEPT !.cmd = cmd, !.fileset = fileset, !.names = <<key>>]

\* a stored value is replaced
TamperPut(fileset, key, value) ==
    /\ fileset \in DOMAIN committed
    /\ key \in DOMAIN committed[fileset]
    /\ committed[fileset][key] # value
    /\ committed' = [committed EXCEPT ![fileset] = Put(@, key, value)]
    /\ buckets' = committed'
    /\ ret' = Tampered("tamper-put", fileset, key)
    /\ UNCHANGED <<fs, Handle, signed, ndrift>>

\* the last byte of a key is moved to the front of its value
TamperShift(fileset, key) ==
    /\ fileset \in DOMAIN committed
    /\ key \in DOMAIN committed[fileset]
    /\ Len(key) > 1
    /\ SubSeq(key, 1, Len(key) - 1) \notin DOMAIN committed[fileset]
    /\ committed' = [committed EXCEPT ![fileset] =
            Put(Delete(@, key), SubSeq(key, 1, Len(key) - 1),
                <<key[Len(key)]>> \o committed[fileset][key])]
    /\ buckets' = committed'
    /\ ret' = Tampered("tamper-shift", fileset, key)
    /\ UNCHANGED <<fs, Handle, signed, ndrift>>

\* the signature of a fileset is removed
TamperDropSignature(fileset) ==
    /\ sigbucket \in DOMAIN committed
    /\ fileset \in DOMAIN committed[sigbucket]
    /\ committed' = [committed EXCEPT ![sigbucket] = Delete(@, fileset)]
    /\ buckets' = committed'
    /\ ret' = Tampered("tamper-dropsig", fileset, <<>>)
    /\ signed' = [n \in DOMAIN signed \ {fileset} |-> signed[n]]
    /\ UNCHANGED <<fs, Handle, ndrift>>

\* the bucket of the signatures is removed
TamperDropSigbucket ==
    /\ sigbucket \in DOMAIN committed
    /\ committed' = DropBucket(committed, sigbucket)
    /\ buckets' = committed'
    /\ ret' = Tampered("tamper-dropsigs", sigbucket, <<>>)
    /\ signed' = [n \in {} |-> <<>>]
    /\ UNCHANGED <<fs, Handle, ndrift>>

(***************************************************************************)
(* Changes of the filesystem between two runs of the program.              *)
(***************************************************************************)
Drifted(path) == [NoRet EXCEPT !.cmd = "drift", !.names = <<path>>]

Present(path) == fs[path].kind # "none"

Beneath(path) == {q \in FsPaths : HasPrefix(q, path \o <<"/">>)}

DriftFrame == UNCHANGED <<committed, buckets, Handle, signed>>

\* the file is rewritten to another length
DriftResize(path, n) ==
    /\ ndrift < MaxDrift
    /\ fs[path].kind = "file" /\ fs[path].size # n
    /\ fs' = [fs EXCEPT ![path].size = n, ![path].rev = 0]
    /\ ndrift' = ndrift + 1 /\ ret' = Drifted(path) /\ DriftFrame

\* other bytes of the same length
DriftRewrite(path) ==
    /\ ndrift < MaxDrift
    /\ fs[path].kind = "file"
    /\ fs' = [fs EXCEPT ![path].rev = 1 - @]
    /\ ndrift' = ndrift + 1 /\ ret' = Drifted(path) /\ DriftFrame

DriftTouch(path, tm) ==
    /\ ndrift < MaxDrift
    /\ Present(path) /\ fs[path].mtime # tm
    /\ fs' = [fs EXCEPT ![path].mtime = tm]
    /\ ndrift' = ndrift + 1 /\ ret' = Drifted(path) /\ DriftFrame

DriftChown(path, uid, gid) ==
    /\ ndrift < MaxDrift
    /\ Present(path) /\ <<fs[path].uid, fs[path].gid>> # <<uid, gid>>
    /\ fs' = [fs EXCEPT ![path].uid = uid, ![path].gid = gid]
    /\ ndrift' = ndrift + 1 /\ ret' = Drifted(path) /\ DriftFrame

DriftChmod(path, perm) ==
    /\ ndrift < MaxDrift
    /\ Present(path) /\ fs[path].perm # perm
    /\ fs' = [fs EXCEPT ![path].perm = perm]
    /\ ndrift' = ndrift + 1 /\ ret' = Drifted(path) /\ DriftFrame

\* the path goes, with everything beneath it
DriftRemove(path) ==
    /\ ndrift < MaxDrift
    /\ Present(path)
    /\ fs' = [q \in FsPaths |-> IF q = path \/ q \in Beneath(path) THEN Missing ELSE fs[q]]
    /\ ndrift' = ndrift + 1 /\ ret' = Drifted(path) /\ DriftFrame

\* a file where a directory was, an empty directory where a file was
DriftRetype(path) ==
    /\ ndrift < MaxDrift
    /\ Present(path)
    /\ fs' = [q \in FsPaths |->
                IF q \in Beneath(path) THEN Missing
                ELSE IF q # path THEN fs[q]
                ELSE IF fs[q].kind = "dir" THEN RegularFile ELSE Directory]
    /\ ndrift' = ndrift + 1 /\ ret' = Drifted(path) /\ DriftFrame


(***************************************************************************)
(* The signature life cycle: filesets are filled, copied, signed, checked  *)
(* and tampered with.                                                      *)
(***************************************************************************)
FilesetS == <<"s">>

FilesetT == <<"t">>

Passwords == {"pw1", "pw2"}

DefaultDirChecks == <<"child", "modtime", "ownership", "permissions">>

\* a record an attacker writes: no checks at all
ForgedValue == Marshal([IsDir |-> FALSE, Checks |-> <<"nocheck">>, Data |-> [n \in {} |-> GoNil]])

SigNext ==
    \/ CmdAdd(<<PathDA, PathDa>>, FilesetS, FALSE, TRUE, FALSE, <<"size">>, DefaultDirChecks)
    \/ CmdAdd(<<PathDA>>, sigbucket, FALSE, TRUE, FALSE, <<"size">>, DefaultDirChecks)
    \/ CmdDelete(<<PathDA>>, FilesetS)
    \/ CmdVerify(<<>>, FilesetS)
    \/ CmdList(FilesetS)
    \/ \E fileset \in {FilesetS, FilesetT, sigbucket} : CmdDeleteSet(fileset)
    \/ CmdListSets
    \/ \E to \in {FilesetT, sigbucket} : CmdCopySet(FilesetS, to)
    \/ \E update \in BOOLEAN : CmdSign(FilesetS, "pw1", update)
    \/ \E pw \in Passwords : CmdVerifySig(FilesetS, pw)
    \/ TamperPut(FilesetS, PathDA, ForgedValue)
    \/ TamperShift(FilesetS, PathDA)
    \/ TamperDropSignature(FilesetS)
    \/ TamperDropSigbucket

Spec == Init /\ [][SigNext]_vars


(***************************************************************************)
(* Properties of the signature life cycle.                                 *)
(***************************************************************************)
\* the stored signature of n is the one the last successful sign of n wrote
SignatureIntact(n) ==
    /\ n \in DOMAIN signed
    /\ sigbucket \in DOMAIN committed
    /\ n \in DOMAIN committed[sigbucket]
    /\ committed[sigbucket][n] = signed[n].sig

\* the keys stored under n that hold another value than when n was signed
ChangedValues(n) ==
    {k \in DOMAIN committed[n] \cap DOMAIN signed[n].content :
        committed[n][k] # signed[n].content[k]}

\* n holds the keys it held when it was signed, and one of them another value
OneValueChanged(n) ==
    /\ n \in DOMAIN committed
    /\ DOMAIN committed[n] = DOMAIN signed[n].content
    /\ Cardinality(ChangedValues(n)) = 1

Untouched(n) == n \in DOMAIN committed /\ committed[n] = signed[n].content

VerifySig(n, pw) == VerifySetSignature("ro", committed, n, pw).err

Changed == <<"proc/140", "db/200">>

WrongPassword == <<"proc/140", "db/190">>

NoSignature == {<<"proc/140", "db/170">>, <<"proc/140", "db/180">>}

\* C1: once a fileset is signed under a password, and one of its stored
\* values is then changed (by add with overwrite or by a write to the file)
\* while its signature stays as signed, verifysig under that password fails
\* with "contents changed or tampered", and a run of verifysig reports it.
C1_TamperEvidence ==
    \A n \in DOMAIN signed :
        SignatureIntact(n) /\ OneValueChanged(n) =>
            /\ VerifySig(n, signed[n].pw) = Changed
            /\ (ret.cmd = "verifysig" /\ ret.fileset = n /\ ret.pw = signed[n].pw
                    => ret.err = Changed)

C1_Witness ==
    /\ ret.cmd = "verifysig" /\ ret.err = Changed
    /\ ret.fileset \in DOMAIN signed
    /\ ret.pw = signed[ret.fileset].pw
    /\ SignatureIntact(ret.fileset) /\ OneValueChanged(ret.fileset)

\* C2: whenever a signed fileset no longer holds the pairs it held when it
\* was signed, while its signature stays as signed, verifysig under the
\* signing password fails.
C2_DigestSensitivity ==
    \A n \in DOMAIN signed :
        SignatureIntact(n) /\ n \in DOMAIN committed /\ ~Untouched(n) =>
            VerifySig(n, signed[n].pw) # Nil

\* the pairs differ and the streams hashed are the same
C2_Collision ==
    \E n \in DOMAIN signed :
        /\ SignatureIntact(n) /\ n \in DOMAIN committed /\ ~Untouched(n)
        /\ hashStream(committed[n], Cursor(committed[n]))
              = hashStream(signed[n].content, Cursor(signed[n].content))
        /\ ret.cmd = "verifysig" /\ ret.fileset = n /\ ret.err = Nil

\* C3: verifysig passes exactly when the signature entry of the fileset is
\* stored, opens under the password given, and holds the digest of the
\* fileset as it is now; and right after a successful sign it passes.
C3_VerifyIffThree ==
    /\ \A n \in DOMAIN committed \ {sigbucket}, pw \in Passwords :
          VerifySig(n, pw) = Nil <=>
              /\ sigbucket \in DOMAIN committed
              /\ n \in DOMAIN committed[sigbucket]
              /\ Decrypt(pw, committed[sigbucket][n]).ok
              /\ Decrypt(pw, committed[sigbucket][n]).plain = calcBucketHash(committed[n])
    /\ (ret.cmd = "sign" /\ ret.err = Nil => VerifySig(ret.fileset, ret.pw) = Nil)
    /\ \A n \in DOMAIN signed :
          SignatureIntact(n) /\ Untouched(n) /\ ret.cmd = "verifysig" /\ ret.fileset = n
              /\ ret.pw = signed[n].pw => ret.err = Nil

C3_Witness ==
    /\ ret.cmd = "verifysig" /\ ret.err = Nil
    /\ ret.fileset \in DOMAIN signed
    /\ SignatureIntact(ret.fileset) /\ Untouched(ret.fileset)

\* C4: verifysig of a signed, unchanged fileset under another password than
\* the one it was signed with fails with "wrong password or tampered", not
\* with "contents changed or tampered".
C4_WrongPassword ==
    \A n \in DOMAIN signed, pw \in Passwords :
        SignatureIntact(n) /\ Untouched(n) /\ pw # signed[n].pw =>
            /\ VerifySig(n, pw) = WrongPassword
            /\ WrongPassword # Changed
            /\ (ret.cmd = "verifysig" /\ ret.fileset = n /\ ret.pw = pw
                    => ret.err = WrongPassword)

C4_Witness ==
    /\ ret.cmd = "verifysig" /\ ret.err = WrongPassword
    /\ ret.fileset \in DOMAIN signed
    /\ ret.pw # signed[ret.fileset].pw
    /\ SignatureIntact(ret.fileset) /\ Untouched(ret.fileset)

\* C5: verifysig of a fileset that exists fails with a "no signature" error
\* whenever the bucket of the signatures is missing or has no entry of that
\* name, whatever the password.
C5_NoSignature ==
    \A n \in DOMAIN committed \ {sigbucket}, pw \in Passwords :
        (sigbucket \notin DOMAIN committed \/ n \notin DOMAIN committed[sigbucket]) =>
            /\ VerifySig(n, pw) \in NoSignature
            /\ (ret.cmd = "verifysig" /\ ret.fileset = n => ret.err \in NoSignature)

\* a signature that was removed, and one that never was
C5_Witness ==
    /\ ret.cmd = "verifysig" /\ ret.err = <<"proc/140", "db/180">>
    /\ ret.fileset \in DOMAIN committed
    /\ sigbucket \in DOMAIN committed
    /\ ret.fileset \notin DOMAIN committed[sigbucket]

HasSignature(n) == sigbucket \in DOMAIN committed /\ n \in DOMAIN committed[sigbucket]

\* C6: a sign without the overwrite flag of a fileset whose signature is
\* stored fails with "signature exists" and leaves the file as it was; with
\* the flag the signature is replaced by one over the contents as they are,
\* and verifysig under the new password passes.
C6_SignOverwrite ==
    [][ret'.cmd = "sign" /\ HasSignature(ret'.fileset) =>
          IF ret'.opts = <<FALSE>>
          THEN ret'.err = <<"proc/150", "db/140">> /\ committed' = committed
          ELSE ret'.fileset \in DOMAIN committed =>
                  /\ ret'.err = Nil
                  /\ committed'[sigbucket][ret'.fileset] =
                        Encrypt(ret'.pw, calcBucketHash(committed[ret'.fileset]))
                  /\ VerifySetSignature("ro", committed', ret'.fileset, ret'.pw).err = Nil]_vars

C6_Witness ==
    /\ ret.cmd = "sign" /\ ret.opts = <<FALSE>>
    /\ ret.err = <<"proc/150", "db/140">>
    /\ HasSignature(ret.fileset)

\* the bucket of the signatures: whether it is there, and what it holds
Signatures == IF sigbucket \in DOMAIN committed THEN <<TRUE, committed[sigbucket]>>
              ELSE <<FALSE, EmptyBucket>>

\* C7: no run of add, delete, deleteset, copyset, list, listsets or verify
\* creates, changes or removes the bucket of the signatures or an entry of it.
C7_OnlySignWritesSignatures ==
    [][ret'.cmd \in {"add", "delete", "deleteset", "copyset", "list", "listsets", "verify"}
          => Signatures' = Signatures]_vars

\* a fileset was deleted and its signature stays
C7_Witness ==
    /\ ret.cmd = "deleteset" /\ ret.err = Nil
    /\ HasSignature(ret.fileset)


(***************************************************************************)
(* Baselines and drift: paths are recorded, the filesystem changes, the    *)
(* fileset is verified.                                                    *)
(***************************************************************************)
DefaultFileChecks == <<"size", "modtime", "ownership", "permissions", "sha256">>

\* a record whose list names a check that no registry holds
UnknownCheckValue ==
    Marshal([IsDir |-> FALSE, Checks |-> <<"bogus", "size">>,
             Data |-> [n \in {"size"} |-> GoString("0")]])

Owners == {<<"1000", "100">>, <<"2000", "100">>, <<"3000", "200">>}

VerifyNext ==
    \/ \E recursive \in BOOLEAN :
          CmdAdd(<<PathD>>, FilesetS, recursive, TRUE, FALSE, DefaultFileChecks, DefaultDirChecks)
    \/ \E filechecks \in {DefaultFileChecks, <<" Size", "SHA256">>} :
          CmdAdd(<<PathDA>>, FilesetS, TRUE, TRUE, FALSE, filechecks, <<"Child ">>)
    \/ \E names \in {<<>>, <<PathDA>>, <<PathD, PathDA>>} : CmdVerify(names, FilesetS)
    \/ TamperPut(FilesetS, PathDA, UnknownCheckValue)
    \/ \E n \in 0..MaxSize : DriftResize(PathDA, n)
    \/ DriftRewrite(PathDA)
    \/ \E path \in {PathD, PathDA}, tm \in 1..MaxTime : DriftTouch(path, tm)
    \/ \E o \in Owners : DriftChown(PathDA, o[1], o[2])
    \/ \E path \in {PathD, PathDA}, perm \in {"644", "000"} : DriftChmod(path, perm)
    \/ \E path \in {PathDA, PathDX} : DriftRemove(path)
    \/ DriftRetype(PathDA)

SpecVerify == Init /\ [][VerifyNext]_vars


(***************************************************************************)
(* Properties of baselines and drift.                                      *)
(***************************************************************************)
RECURSIVE SumOver(_, _)
SumOver(S, weight) ==
    IF S = {} THEN 0
    ELSE LET x == CHOOSE y \in S : TRUE IN weight[x] + SumOver(S \ {x}, weight)

\* the record stored under key k of fileset n
RecordOf(n, k) == Unmarshal(committed[n][k]).rec

DataOf(rec, name) == IF name \in DOMAIN rec.Data THEN rec.Data[name] ELSE GoNil

CheckerOf(rec, name) == IF rec.IsDir THEN dirChecks(name) ELSE fileChecks(name)

\* the check called name of the record rec stored under k fails now, or no
\* registry knows it
CheckFails(rec, k, name) ==
    \/ CheckerOf(rec, name) = ""
    \/ executeCheck(CheckerOf(rec, name), fs, k, DataOf(rec, name), fs[k]) # ""

\* what the entry rec under k adds to the count
Counted(rec, k) ==
    IF ~Stat(fs, k).ok THEN 1
    ELSE IF (fs[k].kind = "dir") # rec.IsDir THEN 1
    ELSE Cardinality({i \in 1..Len(rec.Checks) : CheckFails(rec, k, rec.Checks[i])})

Contribution(n, k) == Counted(RecordOf(n, k), k)

Matched(n, prefix) == {k \in DOMAIN committed[n] : HasPrefix(k, prefix)}

\* the sum over the paths given, the whole fileset when none is given
ExpectedFails(names, n) ==
    LET prefixes == IF Len(names) = 0 THEN << <<>> >>
                    ELSE [i \in 1..Len(names) |-> Abs(names[i])]
        each == [k \in DOMAIN committed[n] |-> Contribution(n, k)]
    IN SumOver(1..Len(prefixes),
               [i \in 1..Len(prefixes) |-> SumOver(Matched(n, prefixes[i]), each)])

\* C8: a run of verify that returns without an error returns the sum, over
\* the entries matched, of 1 for a path that is gone, else 1 for a path of
\* another kind than recorded, else the number of checks of the record that
\* fail or that the registry does not know.
C8_VerifyFailureCount ==
    ret.cmd = "verify" /\ ret.err = Nil /\ ~ret.fatal =>
        ret.fails = ExpectedFails(ret.names, ret.fileset)

\* the first entry fails, and a later one is counted with both its checks
C8_Witness ==
    /\ ret.cmd = "verify" /\ ret.err = Nil /\ ret.names = <<>>
    /\ {PathD, PathDA} \subseteq DOMAIN committed[ret.fileset]
    /\ Contribution(ret.fileset, PathD) >= 1
    /\ Contribution(ret.fileset, PathDA) >= 2
    /\ ret.fails >= 3

RECURSIVE SubLists(_)
SubLists(list) ==
    IF Len(list) = 0 THEN {<<>>}
    ELSE LET rest == SubLists(Tail(list)) IN rest \cup {<<Head(list)>> \o l : l \in rest}

FileCheckLists == SubLists(<<"nocheck", "size", "ownership", "content", "modtime",
                             "permissions", "sha256">>) \ {<<>>}

DirCheckLists == SubLists(<<"nocheck", "ownership", "child", "modtime", "permissions">>) \ {<<>>}

\* C9: for every path there is and every valid check list, add and then
\* verify, the filesystem the same for both, counts no failure.
C9_RoundTripNoDrift ==
    \A path \in {q \in FsPaths : Stat(fs, q).ok} :
        \A filechecks \in FileCheckLists, dirchecks \in DirCheckLists :
            LET a == AddFiles(fs, "rw", NoBuckets, <<path>>, FilesetS, FALSE, FALSE, FALSE,
                              filechecks, dirchecks)
            IN a.err = Nil =>
                  VerifyFiles(fs, "ro", a.bk, <<path>>, FilesetS).fails = 0

\* what the store gives back for the data a check prepared
Stored(name, data) ==
    Unmarshal(Marshal([IsDir |-> FALSE, Checks |-> <<name>>,
                       Data |-> [x \in {name} |-> data]])).rec.Data[name]

AttributeChecks == {"size", "modtime", "ownership", "permissions", "sha256"}

\* name is one of the five, a check of the record rec stored under k, a path
\* that is there and of the kind recorded
Applies(rec, k, name) ==
    /\ Stat(fs, k).ok
    /\ (fs[k].kind = "dir") = rec.IsDir
    /\ name \in AttributeChecks
    /\ CheckerOf(rec, name) # ""

\* the size recorded in rec, -1 when none is
RecordedSize(rec) ==
    IF DataOf(rec, "size").t = "string" /\ ParseInt(DataOf(rec, "size").s).ok
    THEN ParseInt(DataOf(rec, "size").s).n ELSE -1

\* the file under k is longer than rec says
Grown(rec, k) ==
    /\ Stat(fs, k).ok /\ fs[k].kind = "file" /\ ~rec.IsDir
    /\ \E i \in 1..Len(rec.Checks) : rec.Checks[i] = "size"
    /\ RecordedSize(rec) >= 0 /\ fs[k].size > RecordedSize(rec)

\* the check passes on the data recorded exactly when prepareCheck now gives
\* the data recorded
PassesIffSame(rec, k, name, now) ==
    executeCheck(CheckerOf(rec, name), fs, k, DataOf(rec, name), fs[k]) = ""
        <=> now.ok /\ Stored(name, now.data) = DataOf(rec, name)

DriftByAttribute(rec, n, k) ==
    /\ \A i \in 1..Len(rec.Checks) :
          Applies(rec, k, rec.Checks[i]) =>
              PassesIffSame(rec, k, rec.Checks[i],
                            prepareCheck(CheckerOf(rec, rec.Checks[i]), fs, k, fs[k]))
    /\ Grown(rec, k) =>
          /\ CheckFails(rec, k, "size")
          /\ (ret.cmd = "verify" /\ ret.fileset = n /\ ret.names = <<k>> /\ ret.err = Nil
                => ret.fails = 1 + Cardinality({i \in 1..Len(rec.Checks) :
                        rec.Checks[i] # "size" /\ CheckFails(rec, k, rec.Checks[i])}))

\* C10: a check of size, modtime, ownership, permissions or sha256 passes on
\* the data recorded exactly when prepareCheck now gives the data recorded;
\* a file that grew fails its size check, which counts 1 whatever the other
\* checks of the record do.
C10_DriftByAttribute ==
    \A n \in DOMAIN committed \ {sigbucket} : \A k \in DOMAIN committed[n] :
        DriftByAttribute(RecordOf(n, k), n, k)

\* a file grew: size and sha256 fail, modtime, ownership and permissions pass
C10_Witness ==
    /\ ret.cmd = "verify" /\ ret.names = <<PathDA>> /\ ret.err = Nil
    /\ ret.fileset \in DOMAIN committed
    /\ PathDA \in DOMAIN committed[ret.fileset]
    /\ Grown(RecordOf(ret.fileset, PathDA), PathDA)
    /\ Len(RecordOf(ret.fileset, PathDA).Checks) = 5
    /\ ret.fails = 2


(***************************************************************************)
(* Adding again: batches of add under every combination of its flags, on   *)
(* a filesystem that changes in between.                                   *)
(***************************************************************************)
AddFileChecks == <<"size", "sha256">>

AddNext ==
    \/ \E fileNames \in {<<PathDA>>, <<PathDa, PathDA>>}, overwrite \in BOOLEAN, skip \in BOOLEAN :
          CmdAdd(fileNames, FilesetS, FALSE, overwrite, skip, AddFileChecks, DefaultDirChecks)
    \/ \E recursive \in BOOLEAN, overwrite \in BOOLEAN, skip \in BOOLEAN :
          CmdAdd(<<PathD>>, FilesetS, recursive, overwrite, skip, AddFileChecks,
                 DefaultDirChecks)
    \/ \E n \in 0..MaxSize : DriftResize(PathDA, n)
    \/ DriftChmod(PathDA, "000")
    \/ DriftRemove(PathDA)

SpecAdd == Init /\ [][AddNext]_vars

\* the record addFileOrDir builds for a path, from the checks prepared
BaselineOf(isDir, checks, p) ==
    [ok |-> p.ok, rec |-> [IsDir |-> isDir, Checks |-> checks, Data |-> p.data]]

Baseline(f, fqn) ==
    IF ~Stat(f, fqn).ok THEN [ok |-> FALSE, rec |-> ZeroRecord]
    ELSE BaselineOf(f[fqn].kind = "dir",
                    IF f[fqn].kind = "dir" THEN DefaultDirChecks ELSE AddFileChecks,
                    prepareLoop(f, fqn, f[fqn], f[fqn].kind = "dir",
                                IF f[fqn].kind = "dir" THEN DefaultDirChecks ELSE AddFileChecks,
                                [n \in {} |-> GoNil]))

Had(n, k) == n \in DOMAIN committed /\ k \in DOMAIN committed[n]

\* one path, not recursive, that has an entry and whose baseline can be built
AddsAgain(r) ==
    /\ Len(r.names) = 1 /\ ~r.opts[1]
    /\ Had(r.fileset, Abs(r.names[1]))
    /\ Baseline(fs, Abs(r.names[1])).ok

RecordExistsError == <<"proc/070", "db/005">>

AddAgainStep(r, n, overwrite, skip) ==
    /\ (~overwrite /\ ~skip /\ AddsAgain(r)) =>
           r.err = RecordExistsError /\ committed' = committed
    /\ (~overwrite /\ ~skip /\ r.err = Nil) =>
           \A i \in 1..Len(r.names) : ~Had(n, Abs(r.names[i]))
    /\ (~overwrite /\ skip /\ AddsAgain(r)) =>
           r.err = Nil /\ committed' = committed
    /\ (~overwrite /\ skip /\ r.err = Nil /\ n \in DOMAIN committed) =>
           \A k \in DOMAIN committed[n] : committed'[n][k] = committed[n][k]
    /\ (overwrite /\ AddsAgain(r)) =>
           /\ r.err = Nil
           /\ committed' = [committed EXCEPT ![n] =
                  Put(@, Abs(r.names[1]), Marshal(Baseline(fs, Abs(r.names[1])).rec))]
    /\ (overwrite /\ r.err = Nil) =>
           \A i \in 1..Len(r.names) :
               committed'[n][Abs(r.names[i])] = Marshal(Baseline(fs, Abs(r.names[i])).rec)

\* C11: an add of a path that has an entry fails with record exists when
\* neither overwrite nor skip is set, succeeds and leaves the stored record
\* as it was with skip, succeeds and stores the record built now with
\* overwrite; the fileset has one entry for the path afterwards.
C11_OverwriteVsDuplicate ==
    [][(ret'.cmd = "add" /\ ~ret'.fatal) =>
          AddAgainStep(ret', ret'.fileset, ret'.opts[2], ret'.opts[3])]_vars

\* skip kept a baseline that is not the one the file would get now
C11_Witness ==
    /\ ret.cmd = "add" /\ ret.err = Nil /\ ret.names = <<PathDA>>
    /\ ~ret.opts[2] /\ ret.opts[3]
    /\ Baseline(fs, PathDA).ok
    /\ committed[FilesetS][PathDA] # Marshal(Baseline(fs, PathDA).rec)

\* C12: an add that returns an error, or ends the process, leaves the
\* committed store as it was before the batch.
C12_NoPartialCommit ==
    [][(ret'.cmd = "add" /\ (ret'.err # Nil \/ ret'.fatal)) => committed' = committed]_vars

\* the batch failed after it had put records into its transaction
C12_Witness ==
    /\ ret.cmd = "add" /\ ret.err # Nil
    /\ AddFiles(fs, "rw", committed, ret.names, ret.fileset, ret.opts[1], ret.opts[2],
                ret.opts[3], AddFileChecks, DefaultDirChecks).bk # committed
    /\ AddFiles(fs, "rw", committed, ret.names, ret.fileset, ret.opts[1], ret.opts[2],
                ret.opts[3], AddFileChecks, DefaultDirChecks).err = ret.err


(***************************************************************************)
(* The store handle (db.TriplineDb) used directly: boltTx is the           *)
(* transaction the handle holds ("nil", "ro" or "rw"), buckets what that   *)
(* transaction sees, committed what is in the file, closed whether         *)
(* boltDb.Close() was called.  The outcome of bolt's own Begin, Commit and *)
(* Rollback is not decided by the handle: they may return an error.        *)
(***************************************************************************)
Called(op, fileset, names, opts, err) ==
    [NoRet EXCEPT !.cmd = op, !.fileset = fileset, !.names = names, !.opts = opts,
                  !.err = err]

BoltError == <<"bolt">>

\* A variant that begins a transaction whatever the handle holds.
Begin_NoGuard(write) ==
    /\ IF closed
       THEN ret' = Called("Begin", <<>>, <<>>, <<write>>, BoltError)
            /\ UNCHANGED <<boltTx, buckets>>
       ELSE /\ boltTx' = IF write THEN "rw" ELSE "ro"
            /\ buckets' = committed
            /\ ret' = Called("Begin", <<>>, <<>>, <<write>>, Nil)
    /\ UNCHANGED <<fs, committed, closed, signed, ndrift>>

Begin(write) ==
    /\ IF boltTx # "nil"
       THEN ret' = Called("Begin", <<>>, <<>>, <<write>>, <<"db/090">>)
            /\ UNCHANGED <<boltTx, buckets>>
       ELSE IF closed
       THEN ret' = Called("Begin", <<>>, <<>>, <<write>>, BoltError)
            /\ UNCHANGED <<boltTx, buckets>>
       ELSE /\ boltTx' = IF write THEN "rw" ELSE "ro"
            /\ buckets' = committed
            /\ ret' = Called("Begin", <<>>, <<>>, <<write>>, Nil)
    /\ UNCHANGED <<fs, committed, closed, signed, ndrift>>

\* A variant that keeps the transaction when bolt's commit returned an error.
Commit_KeepOnError ==
    /\ IF boltTx = "nil"
       THEN ret' = Called("Commit", <<>>, <<>>, <<>>, <<"db/080">>)
            /\ UNCHANGED <<boltTx, buckets, committed>>
       ELSE \E failed \in BOOLEAN :
               /\ boltTx = "ro" => failed
               /\ committed' = IF failed THEN committed ELSE buckets
               /\ boltTx' = IF failed THEN boltTx ELSE "nil"
               /\ buckets' = IF failed THEN buckets ELSE committed'
               /\ ret' = Called("Commit", <<>>, <<>>, <<>>, IF failed THEN BoltError ELSE Nil)
    /\ UNCHANGED <<fs, closed, signed, ndrift>>

\* bolt refuses to commit a read-only transaction; a writable one may fail
\* to reach the file, which then stays as it was.
Commit ==
    /\ IF boltTx = "nil"
       THEN ret' = Called("Commit", <<>>, <<>>, <<>>, <<"db/080">>)
            /\ UNCHANGED <<boltTx, buckets, committed>>
       ELSE \E failed \in BOOLEAN :
               /\ boltTx = "ro" => failed
               /\ committed' = IF failed THEN committed ELSE buckets
               /\ boltTx' = "nil"
               /\ buckets' = committed'
               /\ ret' = Called("Commit", <<>>, <<>>, <<>>, IF failed THEN BoltError ELSE Nil)
    /\ UNCHANGED <<fs, closed, signed, ndrift>>

Rollback ==
    /\ IF boltTx = "nil"
       THEN ret' = Called("Rollback", <<>>, <<>>, <<>>, <<"db/080">>)
            /\ UNCHANGED <<boltTx, buckets>>
       ELSE \E failed \in BOOLEAN :
               /\ boltTx' = "nil"
               /\ buckets' = committed
               /\ ret' = Called("Rollback", <<>>, <<>>, <<>>, IF failed THEN BoltError ELSE Nil)
    /\ UNCHANGED <<fs, committed, closed, signed, ndrift>>

\* A variant that closes the store whatever the handle holds.
Close_Force ==
    /\ closed' = TRUE
    /\ boltTx' = "nil"
    /\ buckets' = committed
    /\ ret' = Called("Close", <<>>, <<>>, <<>>, Nil)
    /\ UNCHANGED <<fs, committed, signed, ndrift>>

Close ==
    /\ IF boltTx # "nil"
       THEN ret' = Called("Close", <<>>, <<>>, <<>>, <<"db/100">>) /\ UNCHANGED closed
       ELSE ret' = Called("Close", <<>>, <<>>, <<>>, Nil) /\ closed' = TRUE
    /\ UNCHANGED <<fs, committed, boltTx, buckets, signed, ndrift>>

\* [has, err]: db.boltDb.View reads the file in a transaction of its own
HasTriplineRecord(cl, file, path, fileset) ==
    IF cl THEN [has |-> FALSE, err |-> BoltError]
    ELSE IF fileset \notin DOMAIN file THEN [has |-> FALSE, err |-> <<"db/020">>]
    ELSE [has |-> path \in DOMAIN file[fileset], err |-> Nil]

\* a call of an operation that may write: r is what it returned, [bk, err]
StoreWrite(op, fileset, names, opts, r) ==
    /\ buckets' = r.bk
    /\ ret' = Called(op, fileset, names, opts, r.err)
    /\ UNCHANGED <<fs, committed, Handle, signed, ndrift>>

\* a call of an operation that only reads: r is what it returned, [err, ...]
StoreRead(op, fileset, names, opts, r) ==
    /\ ret' = Called(op, fileset, names, opts, r.err)
    /\ UNCHANGED <<fs, committed, buckets, Handle, signed, ndrift>>

CallHas(path, fileset) ==
    StoreRead("HasTriplineRecord", fileset, <<path>>, <<>>,
              HasTriplineRecord(closed, committed, path, fileset))

CallAdd(path, rec, fileset, overwrite) ==
    StoreWrite("AddTriplineRecord", fileset, <<path>>, <<overwrite, rec>>,
               AddTriplineRecord(boltTx, buckets, path, rec, fileset, overwrite))

CallDelete(path, fileset, skip) ==
    StoreWrite("DeleteTriplineRecord", fileset, <<path>>, <<skip>>,
               DeleteTriplineRecord(boltTx, buckets, path, fileset, skip))

CallList(fileset) ==
    StoreRead("ListTriplineRecords", fileset, <<>>, <<>>,
              ListTriplineRecords(boltTx, buckets, fileset))

CallQuery(fileset, pathPrefix) ==
    StoreRead("QueryTriplineRecords", fileset, <<pathPrefix>>, <<>>,
              QueryTriplineRecords(boltTx, buckets, fileset, pathPrefix))

CallListFilesets ==
    StoreRead("ListFilesets", <<>>, <<>>, <<>>, ListFilesets(boltTx, buckets))

CallDeleteFileset(fileset) ==
    StoreWrite("DeleteFileset", fileset, <<>>, <<>>, DeleteFileset(boltTx, buckets, fileset))

CallCopyFileset(src, target) ==
    StoreWrite("CopyFileset", src, <<target>>, <<>>, CopyFileset(boltTx, buckets, src, target))

CallSign(fileset, password, update) ==
    StoreWrite("SignFileset", fileset, <<>>, <<update, password>>,
               SignFileset(boltTx, buckets, fileset, password, update))

CallVerifySignature(fileset, password) ==
    StoreRead("VerifyFilesetSignature", fileset, <<>>, <<password>>,
              [err |-> VerifyFilesetSignature(boltTx, buckets, fileset, password)])

\* the record of a file that one call adds
SizeRecord(n) ==
    [IsDir |-> FALSE, Checks |-> <<"size">>, Data |-> [c \in {"size"} |-> GoString(FormatInt(n))]]

StoreNext ==
    \/ \E write \in BOOLEAN : Begin(write)
    \/ Commit
    \/ Rollback
    \/ Close
    \/ CallHas(PathDA, FilesetS)
    \/ \E overwrite \in BOOLEAN : CallAdd(PathDA, SizeRecord(1), FilesetS, overwrite)
    \/ \E skip \in BOOLEAN : CallDelete(PathDA, FilesetS, skip)
    \/ CallList(FilesetS)
    \/ CallQuery(FilesetS, PathD)
    \/ CallListFilesets
    \/ CallDeleteFileset(FilesetS)
    \/ CallCopyFileset(FilesetS, FilesetT)
    \/ \E update \in BOOLEAN : CallSign(FilesetS, "pw1", update)
    \/ CallVerifySignature(FilesetS, "pw1")

SpecStore == Init /\ [][StoreNext]_vars

WriteOps ==
    {"AddTriplineRecord", "DeleteTriplineRecord", "DeleteFileset", "CopyFileset", "SignFileset"}

ReadOps ==
    {"ListTriplineRecords", "QueryTriplineRecords", "ListFilesets", "VerifyFilesetSignature"}

\* C13: the transaction a handle holds is never replaced by another one: a
\* transaction becomes active only by a Begin on a handle that holds none,
\* and Begin on a handle that holds one fails with nested transaction and
\* leaves that transaction, its mode and what it sees as they are.
C13_SingleTransaction ==
    [][/\ (boltTx' # boltTx /\ boltTx' # "nil") => (ret'.cmd = "Begin" /\ boltTx = "nil")
       /\ (ret'.cmd = "Begin" /\ boltTx # "nil") =>
              /\ ret'.err = <<"db/090">>
              /\ boltTx' = boltTx /\ buckets' = buckets /\ committed' = committed
       /\ (ret'.cmd = "Begin" /\ boltTx = "nil" /\ ret'.err = Nil) =>
              boltTx' = (IF ret'.opts[1] THEN "rw" ELSE "ro")]_vars

\* Begin(false) was refused on a handle that holds a writable transaction
\* with changes of its own
C13_Witness ==
    /\ ret.cmd = "Begin" /\ ret.err = <<"db/090">> /\ ret.opts = <<FALSE>>
    /\ boltTx = "rw" /\ buckets # committed

\* C14: without a transaction every operation but Begin and Close fails
\* with transaction required and leaves the store as it is.
C14_TransactionRequired ==
    [][(boltTx = "nil"
           /\ ret'.cmd \in WriteOps \cup ReadOps \cup {"Commit", "Rollback", "HasTriplineRecord"}) =>
          /\ ret'.err = <<"db/080">>
          /\ committed' = committed /\ buckets' = buckets]_vars

\* an add without a transaction was answered write transaction required
C14_WriteRequiredInstead ==
    /\ boltTx = "nil" /\ ~closed
    /\ ret.cmd = "AddTriplineRecord" /\ ret.err = <<"db/085">>

\* what a read operation returns under the transaction tx
ReadResult(tx, bk, r) ==
    CASE r.cmd = "ListTriplineRecords" -> ListTriplineRecords(tx, bk, r.fileset).err
      [] r.cmd = "QueryTriplineRecords" ->
             QueryTriplineRecords(tx, bk, r.fileset, r.names[1]).err
      [] r.cmd = "ListFilesets" -> ListFilesets(tx, bk).err
      [] r.cmd = "VerifyFilesetSignature" ->
             VerifyFilesetSignature(tx, bk, r.fileset, r.opts[1])

\* C15: under a read-only transaction every mutating operation fails with
\* write transaction required and changes no collection; the read
\* operations return what they return under a writable transaction.
C15_WriteTransactionRequired ==
    [][/\ (boltTx = "ro" /\ ret'.cmd \in WriteOps) =>
              /\ ret'.err = <<"db/085">>
              /\ committed' = committed /\ buckets' = buckets
       /\ (boltTx = "ro" /\ ret'.cmd \in ReadOps) =>
              /\ ret'.err \notin {<<"db/080">>, <<"db/085">>}
              /\ ret'.err = ReadResult("rw", buckets, ret')]_vars

\* a copy that a writable transaction would have made was refused
C15_Witness ==
    /\ boltTx = "ro"
    /\ ret.cmd = "CopyFileset" /\ ret.err = <<"db/085">>
    /\ CopyFileset("rw", buckets, ret.fileset, ret.names[1]).err = Nil

\* C16: after Commit or Rollback the handle holds no transaction, whatever
\* bolt returned; a Begin that follows is not refused as nested, a Close
\* that follows is not refused as forbidden.
C16_CommitRollbackRelease ==
    [][/\ ret'.cmd \in {"Commit", "Rollback"} => boltTx' = "nil"
       /\ (ret.cmd \in {"Commit", "Rollback"} /\ ret'.cmd = "Begin") => ret'.err # <<"db/090">>
       /\ (ret.cmd \in {"Commit", "Rollback"} /\ ret'.cmd = "Close") => ret'.err # <<"db/100">>]_vars

\* a commit that bolt failed left the handle free and the file as it was
C16_Witness ==
    /\ ret.cmd = "Commit" /\ ret.err = BoltError
    /\ boltTx = "nil" /\ ~closed
    /\ FilesetS \notin DOMAIN committed

\* C17: Close on a handle that holds a transaction fails with transaction
\* forbidden, leaves the store open and the transaction active; a Close
\* that succeeds found no transaction.
C17_CloseForbidden ==
    [][/\ (ret'.cmd = "Close" /\ boltTx # "nil") =>
              /\ ret'.err = <<"db/100">>
              /\ closed' = closed /\ boltTx' = boltTx /\ buckets' = buckets
       /\ (ret'.cmd = "Close" /\ ret'.err = Nil) => (boltTx = "nil" /\ closed')]_vars

C17_Witness ==
    /\ ret.cmd = "Close" /\ ret.err = <<"db/100">>
    /\ boltTx = "rw" /\ buckets # committed /\ ~closed


(***************************************************************************)
(* Records put in and taken out inside one writable transaction.           *)
(***************************************************************************)
RecordsNext ==
    \/ Begin(TRUE)
    \/ \E path \in {PathDA, PathDa, <<>>}, n \in 1..MaxSize,
          fileset \in {FilesetS, FilesetT, <<>>}, overwrite \in BOOLEAN :
          CallAdd(path, SizeRecord(n), fileset, overwrite)
    \/ \E path \in {PathDA, PathDa}, fileset \in {FilesetS, FilesetT}, skip \in BOOLEAN :
          CallDelete(path, fileset, skip)

SpecRecords == Init /\ [][RecordsNext]_vars

InTx(n, k) == n \in DOMAIN buckets /\ k \in DOMAIN buckets[n]

\* every pair of the transaction but <<n, k>> is afterwards what it was
OthersKept(n, k) ==
    /\ \A m \in DOMAIN buckets :
          m \in DOMAIN buckets' /\ DOMAIN buckets[m] \ {k} \subseteq DOMAIN buckets'[m]
    /\ \A m \in DOMAIN buckets' : \A j \in DOMAIN buckets'[m] :
          <<m, j>> # <<n, k>> => (InTx(m, j) /\ buckets'[m][j] = buckets[m][j])

Stores(n, path, rec) ==
    /\ ret'.err = Nil
    /\ n \in DOMAIN buckets' /\ path \in DOMAIN buckets'[n]
    /\ buckets'[n][path] = Marshal(rec)
    /\ OthersKept(n, path)

\* C18 for every path and fileset name, the empty ones too: add creates the
\* fileset, fails with record exists on a present key without overwrite,
\* and otherwise stores the serialized record and changes no other key.
C18_StoreAdd ==
    [][(boltTx = "rw" /\ ret'.cmd = "AddTriplineRecord") =>
          /\ ret'.fileset \in DOMAIN buckets'
          /\ (InTx(ret'.fileset, ret'.names[1]) /\ ~ret'.opts[1]) =>
                 ret'.err = RecordExists /\ buckets' = buckets
          /\ ~(InTx(ret'.fileset, ret'.names[1]) /\ ~ret'.opts[1]) =>
                 Stores(ret'.fileset, ret'.names[1], ret'.opts[2])]_vars

\* C18: in a writable transaction add of a fileset name and a path that
\* bolt accepts (neither is empty) creates the fileset if it is not there;
\* with the key present and overwrite unset it fails with record exists
\* and changes nothing; otherwise the key holds the serialized record and
\* no other key of any fileset changes.  An empty fileset name is refused
\* with nothing changed, an empty path with no key changed.
C18_StoreAddAccepted ==
    [][(boltTx = "rw" /\ ret'.cmd = "AddTriplineRecord") =>
          /\ ret'.fileset # <<>> => ret'.fileset \in DOMAIN buckets'
          /\ (InTx(ret'.fileset, ret'.names[1]) /\ ~ret'.opts[1]) =>
                 ret'.err = RecordExists /\ buckets' = buckets
          /\ (/\ ~(InTx(ret'.fileset, ret'.names[1]) /\ ~ret'.opts[1])
              /\ ret'.fileset # <<>> /\ ret'.names[1] # <<>>) =>
                 Stores(ret'.fileset, ret'.names[1], ret'.opts[2])
          /\ ret'.fileset = <<>> => (ret'.err = <<"db/010">> /\ buckets' = buckets)
          /\ (ret'.fileset # <<>> /\ ret'.names[1] = <<>>) =>
                 (ret'.err = <<"db/040">> /\ OthersKept(ret'.fileset, <<>>))]_vars

\* an add with overwrite replaced a record by another one, next to a
\* second fileset
C18_Witness ==
    /\ boltTx = "rw"
    /\ ret.cmd = "AddTriplineRecord" /\ ret.err = Nil /\ ret.opts[1]
    /\ ret.fileset = FilesetS /\ ret.names = <<PathDA>>
    /\ buckets[FilesetS][PathDA] = Marshal(SizeRecord(2))
    /\ PathDa \in DOMAIN buckets[FilesetS]
    /\ FilesetT \in DOMAIN buckets

\* C19: in a writable transaction delete with skip of a path that has no
\* entry returns nil and changes no collection, the fileset is not created
\* when it is not there; a delete with skip done again changes nothing more.
C19_IdempotentDelete ==
    [][(boltTx = "rw" /\ ret'.cmd = "DeleteTriplineRecord" /\ ret'.opts[1]) =>
          /\ ~InTx(ret'.fileset, ret'.names[1]) => (ret'.err = Nil /\ buckets' = buckets)
          /\ DeleteTriplineRecord("rw", buckets', ret'.names[1], ret'.fileset, TRUE)
                 = [bk |-> buckets', err |-> Nil]]_vars

\* the fileset named is not there, another one is
C19_Witness ==
    /\ boltTx = "rw"
    /\ ret.cmd = "DeleteTriplineRecord" /\ ret.opts = <<TRUE>> /\ ret.err = Nil
    /\ ret.fileset \notin DOMAIN buckets
    /\ buckets # NoBuckets

\* C20: in a writable transaction delete without skip of a path that has
\* no entry, the fileset lacking the key or not being there, fails with
\* path not found and changes nothing; an entry that is there is removed
\* and nothing else changes.
C20_StrictDelete ==
    [][(boltTx = "rw" /\ ret'.cmd = "DeleteTriplineRecord" /\ ~ret'.opts[1]) =>
          /\ ~InTx(ret'.fileset, ret'.names[1]) =>
                 (ret'.err = <<"db/050">> /\ buckets' = buckets)
          /\ InTx(ret'.fileset, ret'.names[1]) =>
                 /\ ret'.err = Nil
                 /\ buckets' = [buckets EXCEPT ![ret'.fileset] = Delete(@, ret'.names[1])]]_vars

\* the fileset was not there and the answer was unknown fileset
C20_UnknownFileset ==
    /\ boltTx = "rw"
    /\ ret.cmd = "DeleteTriplineRecord" /\ ret.opts = <<FALSE>>
    /\ ret.fileset \notin DOMAIN buckets
    /\ ret.err = <<"db/020">>

(***************************************************************************)
(* The filesets of a store: queries by prefix, the names of the filesets,  *)
(* copies.  Calls inside one writable transaction on two filesets and the  *)
(* bucket of the signatures.                                               *)
(***************************************************************************)
QueryPrefixes == {<<>>, PathD, PathDA, <<"/", "x">>}

SetsNext ==
    \/ Begin(TRUE)
    \/ \E path \in {PathD, PathDA, PathDa} : CallAdd(path, SizeRecord(1), FilesetS, TRUE)
    \/ CallAdd(PathDA, SizeRecord(2), FilesetT, TRUE)
    \/ \E path \in {PathD, PathDA, PathDa}, fileset \in {FilesetS, FilesetT} :
          CallDelete(path, fileset, TRUE)
    \/ \E fileset \in {FilesetS, FilesetT}, pathPrefix \in QueryPrefixes :
          CallQuery(fileset, pathPrefix)
    \/ \E fileset \in {FilesetS, FilesetT} : CallList(fileset)
    \/ CallListFilesets
    \/ \E fileset \in {FilesetS, FilesetT} : CallDeleteFileset(fileset)
    \/ \E target \in {FilesetS, FilesetT} : CallCopyFileset(FilesetS, target)
    \/ CallSign(FilesetS, "pw1", TRUE)

SpecSets == Init /\ [][SetsNext]_vars

\* entries holds the keys of fileset n that start with prefix, each once,
\* in the order of the bytes, with the record stored under the key in n
ExactlyPrefixed(entries, n, prefix) ==
    /\ {entries[i].Path : i \in 1..Len(entries)}
          = {k \in DOMAIN buckets[n] : Len(prefix) <= Len(k) /\ SubSeq(k, 1, Len(prefix)) = prefix}
    /\ \A i \in 1..Len(entries), j \in 1..Len(entries) :
          i < j => BytesLess(entries[i].Path, entries[j].Path)
    /\ \A i \in 1..Len(entries) :
          Marshal(entries[i].Record) = buckets[n][entries[i].Path]

\* C21: a query by prefix that returns without an error returns exactly the
\* entries of the fileset whose key starts with the prefix, each once, in
\* ascending key order and with the record of that fileset; with the empty
\* prefix it returns every entry, and list returns what that query returns.
C21_QueryByPrefix ==
    /\ (ret.cmd = "QueryTriplineRecords" /\ ret.err = Nil) =>
          ExactlyPrefixed(QueryTriplineRecords(boltTx, buckets, ret.fileset, ret.names[1]).entries,
                          ret.fileset, ret.names[1])
    /\ (ret.cmd = "ListTriplineRecords" /\ ret.err = Nil) =>
          /\ ExactlyPrefixed(ListTriplineRecords(boltTx, buckets, ret.fileset).entries,
                             ret.fileset, <<>>)
          /\ Len(ListTriplineRecords(boltTx, buckets, ret.fileset).entries)
                = Cardinality(DOMAIN buckets[ret.fileset])

\* a query for one of three keys, the other fileset holding the same key
\* with another record
C21_Witness ==
    /\ ret.cmd = "QueryTriplineRecords" /\ ret.err = Nil
    /\ ret.fileset = FilesetS /\ ret.names = <<PathDA>>
    /\ DOMAIN buckets[FilesetS] = {PathD, PathDA, PathDa}
    /\ FilesetT \in DOMAIN buckets
    /\ PathDA \in DOMAIN buckets[FilesetT]
    /\ buckets[FilesetT][PathDA] # buckets[FilesetS][PathDA]

C26_CopyRefused ==
    [][(boltTx = "rw" /\ ret'.cmd = "CopyFileset"
          /\ (ret'.fileset \notin DOMAIN buckets \/ ret'.names[1] \in DOMAIN buckets)) =>
          /\ ret'.err # Nil
          /\ buckets' = buckets]_vars

\* the copy of a fileset onto itself was refused
C26_Witness ==
    /\ boltTx = "rw"
    /\ ret.cmd = "CopyFileset" /\ ret.err = <<"db/110">>
    /\ ret.fileset = FilesetS /\ ret.names = <<FilesetS>>
    /\ buckets[FilesetS] # EmptyBucket

\* the source of a copy was not there
C26_WitnessNoSource ==
    /\ boltTx = "rw"
    /\ ret.cmd = "CopyFileset" /\ ret.err = <<"db/020">>
    /\ ret.fileset \notin DOMAIN buckets
    /\ FilesetT \in DOMAIN buckets

\* C27: a copy that succeeds leaves in the target exactly the pairs of the
\* source, with the same content digest, and the source as it was; an add,
\* a delete or a delete of the fileset on one fileset afterwards leaves
\* every other bucket as it was.
C27_CopyIndependence ==
    [][boltTx = "rw" =>
          /\ (ret'.cmd = "CopyFileset" /\ ret'.err = Nil) =>
                /\ buckets'[ret'.names[1]] = buckets[ret'.fileset]
                /\ buckets'[ret'.fileset] = buckets[ret'.fileset]
                /\ calcBucketHash(buckets'[ret'.names[1]]) = calcBucketHash(buckets[ret'.fileset])
          /\ ret'.cmd \in {"AddTriplineRecord", "DeleteTriplineRecord", "DeleteFileset"} =>
                \A n \in DOMAIN buckets \ {ret'.fileset} :
                    n \in DOMAIN buckets' /\ buckets'[n] = buckets[n]]_vars

\* the source is deleted, the copy still holds a pair only the source was given
C27_Witness ==
    /\ boltTx = "rw"
    /\ ret.cmd = "DeleteFileset" /\ ret.err = Nil /\ ret.fileset = FilesetS
    /\ FilesetS \notin DOMAIN buckets
    /\ FilesetT \in DOMAIN buckets
    /\ {PathD, PathDA} \subseteq DOMAIN buckets[FilesetT]

\* the copy was given another record, the source holds the one it had
C27_WitnessTarget ==
    /\ boltTx = "rw"
    /\ ret.cmd = "AddTriplineRecord" /\ ret.err = Nil /\ ret.fileset = FilesetT
    /\ FilesetS \in DOMAIN buckets /\ FilesetT \in DOMAIN buckets
    /\ PathD \in DOMAIN buckets[FilesetT]
    /\ PathDA \in DOMAIN buckets[FilesetS]
    /\ buckets[FilesetS][PathDA] = Marshal(SizeRecord(1))
    /\ buckets[FilesetT][PathDA] = Marshal(SizeRecord(2))

(***************************************************************************)
(* Verify: the entries a run looks at, and the checks it runs on them.     *)
(***************************************************************************)
\* the entries that the i-th path given selects, every entry when no path
\* is given
Scope(i) ==
    IF Len(ret.names) = 0 THEN DOMAIN committed[ret.fileset]
    ELSE {k \in DOMAIN committed[ret.fileset] :
             /\ Len(Abs(ret.names[i])) <= Len(k)
             /\ SubSeq(k, 1, Len(Abs(ret.names[i]))) = Abs(ret.names[i])}

\* the paths a run goes through: one round over everything when none is given
Rounds == IF Len(ret.names) = 0 THEN {1} ELSE 1..Len(ret.names)

\* C22: a run of verify without paths looks at every entry of the fileset
\* once; a run with paths looks, for each path, at exactly the entries whose
\* key has the absolute path as a prefix, the recorded descendants of a
\* directory with it; a path that is a prefix of no key adds nothing.  So
\* the count is 0 exactly when no entry looked at fails, and when every
\* file recorded is gone it is the number of entries looked at.
C22_VerifyScope ==
    (ret.cmd = "verify" /\ ret.err = Nil /\ ~ret.fatal) =>
        /\ ret.fails = 0 <=>
              \A i \in Rounds : \A k \in Scope(i) : Contribution(ret.fileset, k) = 0
        /\ (\A k \in DOMAIN committed[ret.fileset] : ~Stat(fs, k).ok) =>
              ret.fails = SumOver(Rounds, [i \in Rounds |-> Cardinality(Scope(i))])
        /\ (\A i \in Rounds : Scope(i) = {}) => ret.fails = 0

\* a file of a recorded directory verifies clean while the entry of the
\* directory, which the path does not select, fails
C22_Witness ==
    /\ ret.cmd = "verify" /\ ret.err = Nil /\ ret.names = <<PathDA>> /\ ret.fails = 0
    /\ DOMAIN committed[ret.fileset] = {PathD, PathDA, PathDX}
    /\ Contribution(ret.fileset, PathD) > 0

\* the path given selects no entry
C22_WitnessNoMatch ==
    /\ ret.cmd = "verify" /\ ret.err = Nil /\ ret.names = <<PathDA>> /\ ret.fails = 0
    /\ DOMAIN committed[ret.fileset] = {PathD}
    /\ Contribution(ret.fileset, PathD) > 0

\* the one entry is selected by both paths given and counted for each
C22_WitnessTwice ==
    /\ ret.cmd = "verify" /\ ret.err = Nil /\ ret.names = <<PathD, PathDA>> /\ ret.fails = 2
    /\ DOMAIN committed[ret.fileset] = {PathDA}
    /\ ~Stat(fs, PathDA).ok

\* what the checks of the record stored under k count now, the names taken
\* from the list of the record and looked up by the kind of the record
StoredChecksFail(rec, k) ==
    Cardinality({i \in 1..Len(rec.Checks) :
        LET name == rec.Checks[i]
            checker == IF rec.IsDir THEN dirChecks(name) ELSE fileChecks(name)
        IN \/ checker = ""
           \/ executeCheck(checker, fs, k,
                           IF name \in DOMAIN rec.Data THEN rec.Data[name] ELSE GoNil,
                           fs[k]) # ""})

\* a run r of verify of the one file PathDA, there and still a file, counts
\* the failing checks of the list stored with it
StoredListRuns(r) ==
    (/\ r.cmd = "verify" /\ r.err = Nil /\ ~r.fatal /\ r.names = <<PathDA>>
     /\ PathDA \in DOMAIN committed[r.fileset]
     /\ Stat(fs, PathDA).ok /\ fs[PathDA].kind = "file"
     /\ ~RecordOf(r.fileset, PathDA).IsDir) =>
        r.fails = StoredChecksFail(RecordOf(r.fileset, PathDA), PathDA)

\* the add of the paths names reaches the key k
AddReaches(names, recursive, k) ==
    \E i \in 1..Len(names) :
        \/ k = Abs(names[i])
        \/ recursive /\ HasPrefix(k, Abs(names[i]) \o <<"/">>)

\* C28: at verify time the checks run for an entry are the names of the
\* list stored with it, looked up in the registry of directories for a
\* directory record and of files otherwise; the lists that add takes by
\* default, or that a later add of another path is given, change neither
\* the record stored nor what verify counts for it.
C28_RecordedChecks ==
    [][/\ UNCHANGED <<fs, committed>> => StoredListRuns(ret')
       /\ (ret'.cmd = "add" /\ ret'.fileset \in DOMAIN committed) =>
             \A k \in DOMAIN committed[ret'.fileset] :
                 ~AddReaches(ret'.names, ret'.opts[1], k) =>
                     /\ ret'.fileset \in DOMAIN committed'
                     /\ k \in DOMAIN committed'[ret'.fileset]
                     /\ committed'[ret'.fileset][k] = committed[ret'.fileset][k]]_vars

\* the file was recorded with two checks, its directory with the default
\* lists; its time of modification changed since, a check of the default
\* list, and verify counts nothing
C28_Witness ==
    /\ ret.cmd = "verify" /\ ret.err = Nil /\ ret.names = <<PathDA>> /\ ret.fails = 0
    /\ DOMAIN committed[ret.fileset] = {PathD, PathDA}
    /\ RecordOf(ret.fileset, PathDA).Checks = <<"size", "sha256">>
    /\ RecordOf(ret.fileset, PathD).Checks = DefaultDirChecks
    /\ fs[PathDA].mtime # InitialFs[PathDA].mtime

(***************************************************************************)
(* The check lists of add: lists that name the checks in other spellings,  *)
(* checks of the other registry, unknown names and nothing at all, for     *)
(* paths that are there and paths that are not.                            *)
(***************************************************************************)
GivenFileChecks == {<<"size">>, <<" Size", "SHA256">>, <<"">>, <<"size", "">>,
                   <<"bogus">>, <<"child">>}

GivenDirChecks == {<<"Child ">>, <<"modtime">>, <<"size">>, <<"">>}

\* a relative name of a file that is not there
NameN == <<"n">>

ChecksNext ==
    \/ \E fileNames \in {<<PathDA>>, <<NameN>>, <<PathD>>},
          filechecks \in GivenFileChecks, dirchecks \in GivenDirChecks :
          CmdAdd(fileNames, FilesetS, FALSE, TRUE, FALSE, filechecks, dirchecks)
    \/ DriftRemove(PathDA)

SpecChecks == Init /\ [][ChecksNext]_vars

\* the names of the registries, as the program declares them
FileCheckNames == {"nocheck", "size", "ownership", "content", "modtime", "permissions", "sha256"}

DirCheckNames == {"nocheck", "ownership", "child", "modtime", "permissions"}

\* every piece of the list, trimmed and in lower case, is one of the names
Recognized(checks, names) == \A i \in 1..Len(checks) : Normalize(checks[i]) \in names

\* the run r of add ended at the validation of its check lists
RefusedList(r) == r.fatal /\ r.err \in {<<"proc/010", "proc/030">>, <<"proc/020", "proc/030">>}

\* C29: add accepts its check lists exactly when every comma-separated
\* piece, trimmed and in lower case, is a name of the registry of files,
\* of directories for the second list; on any other piece, the empty piece
\* of an empty list too, it ends before any path is looked at and before
\* the store is changed; lists it accepts are stored in that spelling.
C29_CheckListValidation ==
    [][ret'.cmd = "add" =>
          /\ RefusedList(ret') <=>
                ~(Recognized(ret'.opts[4], FileCheckNames) /\ Recognized(ret'.opts[5], DirCheckNames))
          /\ RefusedList(ret') => committed' = committed
          /\ (~RefusedList(ret') /\ ret'.err = Nil /\ ret'.names = <<PathDA>>) =>
                Unmarshal(committed'[ret'.fileset][PathDA]).rec.Checks
                    = [i \in 1..Len(ret'.opts[4]) |-> Normalize(ret'.opts[4][i])]]_vars

\* an add of a path that is not there with an empty list of file checks
\* ended at the list, not at the path
C29_Witness ==
    /\ ret.cmd = "add" /\ ret.names = <<NameN>> /\ ret.opts[4] = <<"">>
    /\ ret.fatal /\ ret.err = <<"proc/010", "proc/030">>
    /\ ~Stat(fs, Abs(NameN)).ok
    /\ FilesetS \in DOMAIN committed

\* lists in other spellings were accepted and stored trimmed, in lower case
C29_WitnessAccepted ==
    /\ ret.cmd = "add" /\ ret.names = <<PathDA>> /\ ret.err = Nil /\ ~ret.fatal
    /\ ret.opts[4] = <<" Size", "SHA256">> /\ ret.opts[5] = <<"Child ">>
    /\ RecordOf(FilesetS, PathDA).Checks = <<"size", "sha256">>

(***************************************************************************)
(* Deleting files: a recorded directory tree and a sibling of it in one    *)
(* fileset, a second fileset and a signature next to it.                   *)
(***************************************************************************)
DeleteNext ==
    \/ CmdAdd(<<PathD, PathDa>>, FilesetS, TRUE, TRUE, FALSE, <<"size">>, <<"modtime">>)
    \/ CmdAdd(<<PathDA>>, FilesetT, FALSE, TRUE, FALSE, <<"size">>, <<"modtime">>)
    \/ \E fileNames \in {<<PathD>>, <<PathDA>>, <<PathDX, PathDA>>, <<<<"a">>>>, <<NameN>>},
          fileset \in {FilesetS, FilesetT} :
          CmdDelete(fileNames, fileset)
    \/ CmdSign(FilesetS, "pw1", TRUE)

SpecDelete == Init /\ [][DeleteNext]_vars

\* the key k has the absolute form of one of the paths as a prefix
UnderSome(fileNames, k) ==
    \E i \in 1..Len(fileNames) :
        /\ Len(Abs(fileNames[i])) <= Len(k)
        /\ SubSeq(k, 1, Len(Abs(fileNames[i]))) = Abs(fileNames[i])

C23_WitnessTree ==
    /\ ret.cmd = "delete" /\ ret.err = Nil /\ ret.names = <<PathD>> /\ ret.fileset = FilesetS
    /\ committed[FilesetS] = EmptyBucket
    /\ FilesetT \in DOMAIN committed

\* the path matches nothing in a fileset that holds other entries
C23_WitnessNoMatch ==
    /\ ret.cmd = "delete" /\ ret.err = Nil /\ ret.names = <<NameN>> /\ ret.fileset = FilesetS
    /\ Cardinality(DOMAIN committed[FilesetS]) = 4

(***************************************************************************)
(* Reserved names: every command that takes the name of a fileset, given   *)
(* names of filesets and names that begin with the reserved prefix.        *)
(***************************************************************************)
ReservedX == <<"_", "x">>

GivenNames == {FilesetS, sigbucket, ReservedX}

ReservedNext ==
    \/ \E fileset \in GivenNames :
          CmdAdd(<<PathDA>>, fileset, FALSE, TRUE, FALSE, <<"size">>, <<"modtime">>)
    \/ \E fileset \in GivenNames : CmdDelete(<<PathDA>>, fileset)
    \/ \E fileset \in GivenNames : CmdVerify(<<>>, fileset)
    \/ \E fileset \in GivenNames : CmdList(fileset)
    \/ \E fileset \in GivenNames : CmdDeleteSet(fileset)
    \/ \E from \in {FilesetS, sigbucket}, to \in {FilesetT, sigbucket, ReservedX} :
          CmdCopySet(from, to)
    \/ \E fileset \in GivenNames : CmdSign(fileset, "pw1", TRUE)
    \/ \E fileset \in GivenNames : CmdVerifySig(fileset, "pw1")
    \/ CmdListSets

SpecReserved == Init /\ [][ReservedNext]_vars

StartsReserved(name) == name # <<>> /\ name[1] = "_"

\* the run r was given a reserved name, as its fileset or as the target of a copy
GivenReserved(r) ==
    /\ r.cmd \in {"add", "delete", "verify", "list", "deleteset", "copyset", "sign", "verifysig"}
    /\ \/ StartsReserved(r.fileset)
       \/ r.cmd = "copyset" /\ StartsReserved(r.names[1])

\* the signatures as the store holds them, nothing when the bucket is not there
SigState(bk) == IF sigbucket \in DOMAIN bk THEN <<bk[sigbucket]>> ELSE <<>>

\* C24: add, delete, verify, list, the delete of a fileset, copy for its
\* source and its target, sign and the verification of a signature end on
\* a name that begins with the reserved prefix whatever the store holds,
\* with nothing read from it and nothing changed; so the store never holds
\* a reserved bucket other than the signatures, and the signatures change
\* only when a fileset is signed and are never removed.
C24_ReservedNames ==
    [][/\ GivenReserved(ret') =>
             (ret'.fatal /\ ret'.err = <<"proc/005">> /\ committed' = committed)
       /\ \A n \in DOMAIN committed' : StartsReserved(n) => n = sigbucket
       /\ SigState(committed') # SigState(committed) =>
             /\ ret'.cmd = "sign" /\ ~StartsReserved(ret'.fileset)
             /\ sigbucket \in DOMAIN committed'
             /\ \A n \in DOMAIN committed'[sigbucket] \ {ret'.fileset} :
                   /\ sigbucket \in DOMAIN committed
                   /\ n \in DOMAIN committed[sigbucket]
                   /\ committed'[sigbucket][n] = committed[sigbucket][n]]_vars

\* a copy onto the name of the signatures ended on the name, the
\* signatures and the fileset are as they were
C24_Witness ==
    /\ ret.cmd = "copyset" /\ ret.fileset = FilesetS /\ ret.names = <<sigbucket>>
    /\ ret.fatal /\ ret.err = <<"proc/005">>
    /\ FilesetS \in DOMAIN committed
    /\ sigbucket \in DOMAIN committed
    /\ DOMAIN committed[sigbucket] = {FilesetS}

\* the delete of the fileset of the signatures ended on the name
C24_WitnessDeleteSet ==
    /\ ret.cmd = "deleteset" /\ ret.fileset = sigbucket
    /\ ret.fatal /\ ret.err = <<"proc/005">>
    /\ sigbucket \in DOMAIN committed

\* a verify on a reserved name that no bucket has ended on the name
C24_WitnessNoRead ==
    /\ ret.cmd = "verify" /\ ret.fileset = ReservedX
    /\ ret.fatal /\ ret.err = <<"proc/005">>
    /\ ReservedX \notin DOMAIN committed

(***************************************************************************)
(* Stored values that were damaged between two runs: bytes that are not a  *)
(* record, and a record whose value for a check is not of the check.       *)
(***************************************************************************)
\* bytes that json.Unmarshal refuses
NotJsonValue == <<"x">>

\* a record whose size is null
MalformedValue ==
    Marshal([IsDir |-> FALSE, Checks |-> <<"size">>, Data |-> [n \in {"size"} |-> GoNil]])

CorruptNext ==
    \/ CmdAdd(<<PathD>>, FilesetS, TRUE, TRUE, FALSE, <<"size">>, <<"modtime">>)
    \/ \E key \in {PathDA, PathDX}, value \in {NotJsonValue, MalformedValue} :
          TamperPut(FilesetS, key, value)
    \/ \E fileNames \in {<<>>, <<PathD>>, <<PathDA>>, <<PathDX>>} : CmdVerify(fileNames, FilesetS)
    \/ \E n \in 0..MaxSize : DriftResize(PathDX, n)

SpecCorrupt == Init /\ [][CorruptNext]_vars

Undecodable(n, k) == ~Unmarshal(committed[n][k]).ok

\* the value for a check of the record under k is not what the check stores
Malformed(n, k) == ~Undecodable(n, k) /\ committed[n][k] = MalformedValue

\* the least the entry under k is to add to the count
Owed(n, k) ==
    IF Undecodable(n, k) THEN 1
    ELSE IF Malformed(n, k) /\ Contribution(n, k) = 0 THEN 1
    ELSE Contribution(n, k)

\* C30: a run of verify that matches an entry whose stored value is corrupt,
\* bytes that cannot be decoded or a value of a check that is malformed,
\* returns a count and no error; the entry adds at least one failure to
\* the count and every other entry matched adds what it adds otherwise.
C30_CorruptEntryCounted ==
    (/\ ret.cmd = "verify" /\ ret.fileset \in DOMAIN committed
     /\ \E i \in Rounds : \E k \in Scope(i) :
           Undecodable(ret.fileset, k) \/ Malformed(ret.fileset, k)) =>
        /\ ret.err = Nil /\ ~ret.fatal
        /\ ret.fails >= SumOver(Rounds,
              [i \in Rounds |->
                  SumOver(Scope(i), [k \in Scope(i) |-> Owed(ret.fileset, k)])])

\* the run ended on the entry that cannot be decoded, with an error and no count
C30_Aborted ==
    /\ ret.cmd = "verify" /\ ret.names = <<>> /\ ret.fileset = FilesetS
    /\ FilesetS \in DOMAIN committed
    /\ Undecodable(FilesetS, PathDA)
    /\ ~Undecodable(FilesetS, PathDX) /\ Contribution(FilesetS, PathDX) > 0
    /\ ret.err = <<"proc/120", "db/070">> /\ ret.fails = 0

\* what holds of the malformed value of a check: the run returns a count,
\* the entry is counted and the other entries are counted as ever
C30_MalformedCounted ==
    (/\ ret.cmd = "verify" /\ ret.fileset \in DOMAIN committed
     /\ \A i \in Rounds : \A k \in Scope(i) : ~Undecodable(ret.fileset, k)) =>
        /\ ret.err = Nil /\ ~ret.fatal
        /\ ret.fails = SumOver(Rounds,
              [i \in Rounds |->
                  SumOver(Scope(i), [k \in Scope(i) |-> Owed(ret.fileset, k)])])

\* a malformed size was counted once, next to a file that changed
C30_MalformedWitness ==
    /\ ret.cmd = "verify" /\ ret.names = <<>> /\ ret.err = Nil /\ ret.fails = 2
    /\ ret.fileset \in DOMAIN committed
    /\ Malformed(ret.fileset, PathDA)
    /\ Contribution(ret.fileset, PathDX) = 1

(***************************************************************************)
(* Baseline values of the wrong shape: records written into the bolt file  *)
(* by hand, whose value for a check is not what the check stored, verified *)
(* against files that can and cannot be read.                              *)
(***************************************************************************)
JsonNull == <<"null">>

JsonNumber == <<"1">>

\* a string that is neither a size nor a time
JsonText == JsonString("abc")

\* a list with an element that is no string
JsonMixedList == <<"[">> \o JsonString("a") \o <<",", "1", "]">>

JsonNoUser == <<"{">> \o JsonString("Group") \o <<":">> \o JsonString("wheel") \o <<"}">>

JsonNoGroup == <<"{">> \o JsonString("User") \o <<":">> \o JsonString("root") \o <<"}">>

JsonNumberUser ==
    <<"{">> \o JsonString("User") \o <<":", "1", ",">>
            \o JsonString("Group") \o <<":">> \o JsonString("wheel") \o <<"}">>

JsonNumberGroup ==
    <<"{">> \o JsonString("User") \o <<":">> \o JsonString("root") \o <<",">>
            \o JsonString("Group") \o <<":", "1", "}">>

\* the values that are not of the shape the checker stores
MalformedFor(checker) ==
    CASE checker \in {"fileSizeChecker", "modTimeChecker"} ->
            {JsonNull, JsonNumber, JsonText, JsonMixedList, JsonNoUser}
      [] checker \in {"permissionsChecker", "sha256Checker"} ->
            {JsonNull, JsonNumber, JsonMixedList, JsonNoUser}
      [] checker = "ownershipChecker" ->
            {JsonNull, JsonNumber, JsonText, JsonMixedList, JsonNoUser, JsonNoGroup,
             JsonNumberUser, JsonNumberGroup}
      [] checker = "childChecker" ->
            {JsonNull, JsonNumber, JsonText, JsonNoUser, JsonMixedList}
      [] OTHER -> {}

\* the text of a record with the one check name and the value text for it
RecordText(isDir, name, text) ==
    <<"{">> \o JsonString("isDir") \o <<":", IF isDir THEN "true" ELSE "false", ",">>
    \o JsonString("checks") \o <<":", "[">> \o JsonString(name) \o <<"]", ",">>
    \o JsonString("data") \o <<":", "{">> \o JsonString(name) \o <<":">> \o text
    \o <<"}", "}">>

\* the text of a record whose data lacks the value of its check
RecordTextNoData(isDir, name) ==
    <<"{">> \o JsonString("isDir") \o <<":", IF isDir THEN "true" ELSE "false", ",">>
    \o JsonString("checks") \o <<":", "[">> \o JsonString(name) \o <<"]", ",">>
    \o JsonString("data") \o <<":", "{", "}", "}">>

HandEditedFile ==
    {RecordText(FALSE, "size", text) : text \in {JsonNull, JsonNumber, JsonText}}
        \cup {RecordTextNoData(FALSE, "size"), RecordText(FALSE, "sha256", JsonNumber),
              RecordText(FALSE, "nocheck", JsonMixedList)}

HandEditedDir ==
    {RecordText(TRUE, "child", text) : text \in {JsonMixedList, JsonText}}
        \cup {RecordText(TRUE, "ownership", text) : text \in {JsonNoUser, JsonNumberGroup}}

BaselineNext ==
    \/ CmdAdd(<<PathD>>, FilesetS, TRUE, TRUE, FALSE, <<"size">>, <<"child">>)
    \/ \E value \in HandEditedFile : TamperPut(FilesetS, PathDA, value)
    \/ \E value \in HandEditedDir : TamperPut(FilesetS, PathD, value)
    \/ \E fileNames \in {<<>>, <<PathDA>>} : CmdVerify(fileNames, FilesetS)
    \/ \E path \in {PathD, PathDA} : DriftChmod(path, "000")

SpecBaseline == Init /\ [][BaselineNext]_vars

\* what json.Unmarshal hands to the check for the value text
Decoded(text) == ParseValue(text, 1).val

\* the reasons that blame the value stored
CorruptReasons ==
    {"size was not recorded", "modtime not recorded", "data corrupt",
     "corrupt data, expected string", "corrupt child data"}

FileCheckers ==
    {"fileSizeChecker", "modTimeChecker", "permissionsChecker", "sha256Checker",
     "ownershipChecker"}

DirCheckers == {"childChecker", "modTimeChecker", "permissionsChecker", "ownershipChecker"}

\* the reasons that the checkers of a path of the filesystem give for every
\* value of the wrong shape
ReasonsOf(path, checkers) ==
    {executeCheck(checker, fs, path, Decoded(text), fs[path]) :
        <<checker, text>> \in {ct \in checkers \X MalformedFor("ownershipChecker") :
                                  ct[2] \in MalformedFor(ct[1])}}

\* the no-op check passes whatever the value is
NoCheckPasses ==
    \A path \in {PathD, PathDA} : \A text \in MalformedFor("ownershipChecker") :
        executeCheck("noChecker", fs, path, Decoded(text), fs[path]) = ""

\* C31: for every built-in check but the no-op check, executeCheck given a
\* baseline value of the wrong shape, null or missing, of another type, a
\* string that does not parse, an owner pair without User or Group, a list
\* of children with an element that is no string, returns a failure whose
\* reason is that the data is corrupt, never nil; the no-op check passes
\* for every value.
C31_MalformedBaseline ==
    /\ ReasonsOf(PathDA, FileCheckers) \subseteq CorruptReasons
    /\ ReasonsOf(PathD, DirCheckers) \subseteq CorruptReasons
    /\ NoCheckPasses

\* the list of children of the record has an element that is no string and
\* the directory cannot be listed: the reason given is the listing
C31_ListingError ==
    /\ ret.cmd = "verify" /\ ret.names = <<>> /\ ret.err = Nil /\ ret.fails >= 1
    /\ ret.fileset \in DOMAIN committed
    /\ committed[ret.fileset][PathD] = RecordText(TRUE, "child", JsonMixedList)
    /\ ~Readable(fs[PathD])
    /\ executeCheck("childChecker", fs, PathD, Decoded(JsonMixedList), fs[PathD]) = "read dir"

\* what holds of every value of the wrong shape: the check fails, with the
\* reason that the data is corrupt unless it is the list of children of a
\* directory that cannot be listed; verify counts the hand-edited record of
\* the file as one failure, as none when its check is the no-op check
C31_NeverPasses ==
    /\ "" \notin ReasonsOf(PathDA, FileCheckers) \cup ReasonsOf(PathD, DirCheckers)
    /\ ReasonsOf(PathDA, FileCheckers) \subseteq CorruptReasons
    /\ ReasonsOf(PathD, DirCheckers) \subseteq
          CorruptReasons \cup (IF ReadDir(fs, PathD).ok THEN {} ELSE {"read dir"})
    /\ NoCheckPasses
    /\ (/\ ret.cmd = "verify" /\ ret.names = <<PathDA>> /\ ret.err = Nil
        /\ committed[ret.fileset][PathDA] \in HandEditedFile) =>
           ret.fails = IF committed[ret.fileset][PathDA] = RecordText(FALSE, "nocheck", JsonMixedList)
                       THEN 0 ELSE 1

\* the record of the file was edited to a size that is a number, and counted
C31_CountedWitness ==
    /\ ret.cmd = "verify" /\ ret.names = <<PathDA>> /\ ret.err = Nil /\ ret.fails = 1
    /\ committed[ret.fileset][PathDA] = RecordText(FALSE, "size", JsonNumber)


(***************************************************************************)
(* Recursive add over a tree two levels deep: /d holds the directory /d/a  *)
(* and the file /d/b, /d/a holds the file /d/a/b.                          *)
(***************************************************************************)
PathDAB == <<"/", "d", "/", "a", "/", "b">>
PathDB == <<"/", "d", "/", "b">>

TreePaths == {PathD, PathDA, PathDAB, PathDB}

TreeFs ==
    [q \in TreePaths |-> IF q \in {PathD, PathDA} THEN Directory ELSE RegularFile]

InitTree ==
    /\ fs = TreeFs
    /\ committed = NoBuckets
    /\ boltTx = "nil"
    /\ buckets = NoBuckets
    /\ closed = FALSE
    /\ ret = NoRet
    /\ signed = [n \in {} |-> <<>>]
    /\ ndrift = 0

TreeBatches == {<<PathD>>, <<PathDA, PathDB>>, <<PathDB, PathDA>>}

TreeNext ==
    \/ \E fileNames \in TreeBatches, recursive \in BOOLEAN, overwrite \in BOOLEAN,
          skip \in BOOLEAN :
          CmdAdd(fileNames, FilesetS, recursive, overwrite, skip, AddFileChecks,
                 DefaultDirChecks)
    \/ \E path \in {PathDA, PathDAB, PathDB} : DriftChmod(path, "000")
    \/ DriftTouch(PathD, MaxTime)

SpecTree == InitTree /\ [][TreeNext]_vars

\* p comes before q when a tree is walked parent first, children by name
Precedes(p, q) ==
    /\ p # q
    /\ \E i \in 1..Len(q) :
          /\ \A j \in 1..(i - 1) : j <= Len(p) /\ p[j] = q[j]
          /\ (i > Len(p) \/ Code(p[i]) < Code(q[i]))

Subtree(f, fqn) ==
    {q \in DOMAIN f : f[q].kind # "none" /\ (q = fqn \/ HasPrefix(q, fqn \o <<"/">>))}

InWalkOrder(S) ==
    CHOOSE s \in [1..Cardinality(S) -> S] :
        \A i \in 1..Cardinality(S), j \in 1..Cardinality(S) :
            i < j => Precedes(s[i], s[j])

Visits(f, fqn, recursive) ==
    IF recursive /\ f[fqn].kind = "dir" THEN InWalkOrder(Subtree(f, fqn)) ELSE <<fqn>>

RECURSIVE VisitsOf(_, _, _)
VisitsOf(f, names, recursive) ==
    IF names = <<>> THEN <<>>
    ELSE Visits(f, Abs(Head(names)), recursive) \o VisitsOf(f, Tail(names), recursive)

KeysOf(bk, n) == IF n \in DOMAIN bk THEN DOMAIN bk[n] ELSE {}

\* the paths an add into a fileset that did not exist has put when it
\* returns are the first k of the walk; all of them when it succeeds
WalkedInOrder(t, seq, n) ==
    \E k \in 0..Len(seq) :
        /\ KeysOf(t.bk, n) = {seq[i] : i \in 1..k}
        /\ t.err = Nil => k = Len(seq)

TreeAddStep(r, seq, n) ==
    /\ n \notin DOMAIN committed =>
           WalkedInOrder(AddFiles(fs, "rw", committed, r.names, n, r.opts[1], r.opts[2],
                                  r.opts[3], r.opts[4], r.opts[5]), seq, n)
    /\ r.err = Nil =>
           DOMAIN committed'[n] = KeysOf(committed, n) \cup {seq[i] : i \in 1..Len(seq)}
    /\ (r.err = Nil /\ ~r.opts[2] /\ r.opts[3]) =>
           \A i \in 1..Len(seq) :
               committed'[n][seq[i]] =
                   IF seq[i] \in KeysOf(committed, n) THEN committed[n][seq[i]]
                   ELSE Marshal(Baseline(fs, seq[i]).rec)

\* C32: an add of a directory with recursive set records the directory and
\* then every descendant its listings reach, a child's whole subtree before
\* the next child and a path's whole subtree before the next path of the
\* batch; without recursive only the directory itself is recorded.  With
\* skip set and the directory recorded already its record stays as it was,
\* its children are visited all the same and the descendants that had no
\* record get one.
C32_RecursiveAdd ==
    [][(ret'.cmd = "add" /\ UNCHANGED fs) =>
           TreeAddStep(ret', VisitsOf(fs, ret'.names, ret'.opts[1]), ret'.fileset)]_vars

\* a recursive add of /d that recorded the whole tree
C32_Witness ==
    /\ ret.cmd = "add" /\ ret.names = <<PathD>> /\ ret.opts[1] /\ ret.err = Nil
    /\ DOMAIN committed[FilesetS] = TreePaths

\* a recursive add with skip that kept the record /d had, taken before its
\* modification time changed, and recorded the descendants
C32_WitnessSkip ==
    /\ ret.cmd = "add" /\ ret.names = <<PathD>> /\ ret.opts[1] /\ ret.opts[3]
    /\ ret.err = Nil
    /\ DOMAIN committed[FilesetS] = TreePaths
    /\ committed[FilesetS][PathD] # Marshal(Baseline(fs, PathD).rec)

\* a recursive add of /d that stopped at /d/a/b, before /d/b was visited
C32_WitnessOrder ==
    /\ ret.cmd = "add" /\ ret.names = <<PathD>> /\ ret.opts[1] /\ ret.err = <<"proc/060">>
    /\ FilesetS \notin DOMAIN committed
    /\ KeysOf(AddFiles(fs, "rw", committed, <<PathD>>, FilesetS, TRUE, FALSE, FALSE,
                       AddFileChecks, DefaultDirChecks).bk, FilesetS) = {PathD, PathDA}

\* an add without recursive that recorded the directory alone
C32_WitnessFlat ==
    /\ ret.cmd = "add" /\ ret.names = <<PathD>> /\ ~ret.opts[1] /\ ret.err = Nil
    /\ DOMAIN committed[FilesetS] = {PathD}


(***************************************************************************)
(* The order of the errors of verifysig.                                   *)
(***************************************************************************)
UnknownFileset == <<"proc/140", "db/020">>

\* what verifysig of n under pw has to answer, first reason first
FirstReason(n, pw) ==
    IF n \notin DOMAIN committed THEN {UnknownFileset}
    ELSE IF ~HasSignature(n) THEN NoSignature
    ELSE IF ~SignatureIntact(n) THEN {WrongPassword, Changed, Nil}
    ELSE IF pw # signed[n].pw THEN {WrongPassword}
    ELSE IF calcBucketHash(committed[n]) # calcBucketHash(signed[n].content) THEN {Changed}
    ELSE {Nil}

\* C33: verifysig reports the first that applies of: unknown fileset, no
\* signature (the bucket of the signatures or the entry is missing), wrong
\* password, contents changed.  A changed fileset whose signature was
\* removed gives "no signature"; a changed fileset under a wrong password
\* gives "wrong password or tampered", not "contents changed".
C33_ErrorPrecedence ==
    /\ \A n \in {FilesetS, FilesetT}, pw \in Passwords :
          VerifySig(n, pw) \in FirstReason(n, pw)
    /\ ret.cmd = "verifysig" /\ ~ret.fatal => ret.err \in FirstReason(ret.fileset, ret.pw)

\* a changed fileset, signed, checked under another password
C33_Witness ==
    /\ ret.cmd = "verifysig" /\ ret.err = WrongPassword
    /\ SignatureIntact(ret.fileset) /\ ret.fileset \in DOMAIN committed
    /\ ~Untouched(ret.fileset)
    /\ ret.pw # signed[ret.fileset].pw

\* a changed fileset whose signature was removed
C33_WitnessNoSignature ==
    /\ ret.cmd = "verifysig" /\ ret.err \in NoSignature
    /\ ret.fileset \in DOMAIN committed
    /\ PathDA \in DOMAIN committed[ret.fileset]
    /\ committed[ret.fileset][PathDA] = ForgedValue

\* a fileset that is gone and whose signature is stored
C33_WitnessUnknown ==
    /\ ret.cmd = "verifysig" /\ ret.err = UnknownFileset
    /\ HasSignature(ret.fileset)

\* a changed fileset, signed, checked under the password of the signature
C33_WitnessChanged ==
    /\ ret.cmd = "verifysig" /\ ret.err = Changed
    /\ SignatureIntact(ret.fileset) /\ ret.pw = signed[ret.fileset].pw


(***************************************************************************)
(* main(), call by call.  One run of the program opens the store, begins   *)
(* a transaction, runs the operation of the command, ends the transaction  *)
(* and returns, upon which the deferred calls run, last deferred first.    *)
(* log.Fatal ends the process where it stands: no deferred call runs.      *)
(* Two dispatches are in the repository: the current one, and an earlier   *)
(* one without sign and verifysig.                                         *)
(***************************************************************************)
Current == "main.go"

Earlier == "earlier"

\* the handle of the run, the calls made on it so far, how the run ended
Process ==
    [tx |-> "nil", closed |-> FALSE, calls |-> <<>>, last |-> Nil, exited |-> FALSE,
     err |-> Nil, wrote |-> FALSE]

Did(p, op, err, tx) ==
    [p EXCEPT !.calls = Append(@, [op |-> op, err |-> err]), !.last = err, !.tx = tx]

\* tripDb.Begin(write)
txBegin(p, write) ==
    IF p.exited THEN p
    ELSE IF p.tx # "nil" THEN Did(p, "Begin", <<"db/090">>, p.tx)
    ELSE Did(p, "Begin", Nil, IF write THEN "rw" ELSE "ro")

\* tripDb.Commit(); failed: bolt could not write the file
txCommit(p, failed) ==
    IF p.exited THEN p
    ELSE IF p.tx = "nil" THEN Did(p, "Commit", <<"db/080">>, "nil")
    ELSE [Did(p, "Commit", IF failed \/ p.tx = "ro" THEN BoltError ELSE Nil, "nil")
             EXCEPT !.wrote = ~failed /\ p.tx = "rw"]

\* tripDb.Rollback()
txRollback(p, failed) ==
    IF p.exited THEN p
    ELSE IF p.tx = "nil" THEN Did(p, "Rollback", <<"db/080">>, "nil")
    ELSE Did(p, "Rollback", IF failed THEN BoltError ELSE Nil, "nil")

\* tripDb.Close()
txClose(p) ==
    IF p.exited THEN p
    ELSE IF p.tx # "nil" THEN Did(p, "Close", <<"db/100">>, p.tx)
    ELSE [Did(p, "Close", Nil, "nil") EXCEPT !.closed = TRUE]

\* log.Fatal(err): os.Exit(1)
logFatal(p, err) == IF p.exited THEN p ELSE [p EXCEPT !.exited = TRUE, !.err = err]

must(p, err) == IF err = Nil THEN p ELSE logFatal(p, <<"tripl/010">> \o err)

\* must applied to what the last call on the handle returned
mustLast(p) == must(p, p.last)

mustCommitOrRollback(p, err, failed) ==
    IF err = Nil THEN mustLast(txCommit(p, failed))
    ELSE logFatal(mustLast(txRollback(p, failed)), err)

Writes(cmd) == cmd \in {"add", "delete", "deleteset", "copyset", "sign"}

\* the commands that defer a rollback after they began their transaction
DefersRollback(dispatch, cmd) ==
    \/ cmd \in {"verify", "list", "listsets", "verifysig"}
    \/ dispatch = Earlier /\ cmd = "copyset"

\* the end of a command that reads: must(err), and for verify the count
mustRead(p, cmd, r) ==
    IF cmd = "verify" /\ r.err = Nil /\ r.fails > 0 THEN logFatal(p, <<"failed checks">>)
    ELSE must(p, r.err)

\* r: what the operation of the command returns within the transaction
main(dispatch, cmd, r, failed) ==
    LET begun == mustLast(txBegin(Process, Writes(cmd)))
        ran == IF r.fatal THEN logFatal(begun, r.err) ELSE begun
        ended == IF Writes(cmd) THEN mustCommitOrRollback(ran, r.err, failed)
                 ELSE mustRead(ran, cmd, r)
        unwound == IF DefersRollback(dispatch, cmd) THEN mustLast(txRollback(ended, failed))
                   ELSE ended
    IN mustLast(txClose(unwound))

RunMain(dispatch, cmd, fileset, names, pw, opts, r, p) ==
    /\ committed' = IF p.wrote THEN r.bk ELSE committed
    /\ buckets' = committed'
    /\ boltTx' = p.tx
    /\ closed' = p.closed
    /\ ret' = [dispatch |-> dispatch, calls |-> p.calls, exited |-> p.exited,
               exit |-> p.err] @@ Report(cmd, fileset, names, pw, opts, r)
    /\ UNCHANGED <<fs, signed, ndrift>>

MainWrite(dispatch, cmd, fileset, names, pw, opts, r) ==
    \E failed \in BOOLEAN :
        RunMain(dispatch, cmd, fileset, names, pw, opts, r, main(dispatch, cmd, r, failed))

MainRead(dispatch, cmd, fileset, names, pw, opts, r) ==
    RunMain(dispatch, cmd, fileset, names, pw, opts, r, main(dispatch, cmd, r, FALSE))

Dispatches == {Current, Earlier}

CliNext ==
    \/ \E dispatch \in Dispatches, overwrite \in BOOLEAN :
          MainWrite(dispatch, "add", FilesetS, <<PathDA>>, "",
                    <<FALSE, overwrite, FALSE, <<"size">>, DefaultDirChecks>>,
                    AddFiles(fs, "rw", committed, <<PathDA>>, FilesetS, FALSE, overwrite,
                             FALSE, <<"size">>, DefaultDirChecks))
    \/ \E dispatch \in Dispatches :
          MainWrite(dispatch, "delete", FilesetS, <<PathDA>>, "", <<>>,
                    DeleteFiles("rw", committed, <<PathDA>>, FilesetS))
    \/ \E dispatch \in Dispatches :
          MainRead(dispatch, "verify", FilesetS, <<>>, "", <<>>,
                   VerifyFiles(fs, "ro", committed, <<>>, FilesetS))
    \/ \E dispatch \in Dispatches :
          MainRead(dispatch, "list", FilesetS, <<>>, "", <<>>,
                   ListRecords("ro", committed, FilesetS))
    \/ \E dispatch \in Dispatches, fileset \in {FilesetS, FilesetT, sigbucket} :
          MainWrite(dispatch, "deleteset", fileset, <<>>, "", <<>>,
                    DeleteSet("rw", committed, fileset))
    \/ \E dispatch \in Dispatches :
          MainRead(dispatch, "listsets", <<>>, <<>>, "", <<>>, Listsets("ro", committed))
    \/ \E dispatch \in Dispatches :
          MainWrite(dispatch, "copyset", FilesetS, <<FilesetT>>, "", <<>>,
                    CopySet("rw", committed, FilesetS, FilesetT))
    \/ \E update \in BOOLEAN :
          MainWrite(Current, "sign", FilesetS, <<>>, "pw1", <<update>>,
                    SignSet("rw", committed, FilesetS, "pw1", update))
    \/ \E pw \in Passwords :
          MainRead(Current, "verifysig", FilesetS, <<>>, pw, <<>>,
                   VerifySetSignature("ro", committed, FilesetS, pw))
    \/ DriftResize(PathDA, MaxSize)

SpecCli == Init /\ [][CliNext]_vars

TransactionRequired == <<"db/080">>

TransactionForbidden == <<"db/100">>

\* the calls of a run that ended its transaction
Ends(r) == {i \in DOMAIN r.calls : r.calls[i].op \in {"Commit", "Rollback"}}

Succeeded(r) == r.err = Nil /\ ~r.fatal

Sequenced(r) ==
    /\ \A i \in DOMAIN r.calls :
          /\ r.calls[i].err \notin {TransactionRequired, TransactionForbidden}
          /\ r.calls[i].op = "Close" => Cardinality({j \in Ends(r) : j < i}) = 1
    /\ Cardinality(Ends(r)) <= 1
    /\ \A i \in Ends(r) : r.calls[i].op = "Commit" <=> (Writes(r.cmd) /\ Succeeded(r))
    /\ Succeeded(r) =>
          /\ r.exit \notin {<<"tripl/010">> \o TransactionRequired,
                            <<"tripl/010">> \o TransactionForbidden}
          /\ ~r.exited => r.calls[Len(r.calls)].op = "Close"

\* C34: in every command of every dispatch the transaction begun is ended
\* once, by a commit after success and by a rollback otherwise, before the
\* store is closed; no commit or rollback is called without a transaction,
\* and a command whose operation succeeded does not end with "transaction
\* required" or "transaction forbidden".
C34_TransactionSequencing == "calls" \in DOMAIN ret => Sequenced(ret)

\* copyset of the earlier dispatch: the copy is committed, the deferred
\* rollback finds no transaction, the run ends with "transaction required"
C34_RollbackAfterCommit ==
    /\ "calls" \in DOMAIN ret
    /\ ret.dispatch = Earlier /\ ret.cmd = "copyset" /\ Succeeded(ret)
    /\ ret.calls = <<[op |-> "Begin", err |-> Nil], [op |-> "Commit", err |-> Nil],
                     [op |-> "Rollback", err |-> TransactionRequired]>>
    /\ ret.exited /\ ret.exit = <<"tripl/010">> \o TransactionRequired
    /\ FilesetT \in DOMAIN committed /\ ~closed

\* the commands of the current dispatch, and all but copyset of the earlier
\* one, keep the sequence
C34_OtherCommands ==
    ("calls" \in DOMAIN ret /\ ~(ret.dispatch = Earlier /\ ret.cmd = "copyset"))
        => Sequenced(ret)

\* copyset of the current dispatch: begin, commit, close
C34_CurrentCopyset ==
    /\ "calls" \in DOMAIN ret
    /\ ret.dispatch = Current /\ ret.cmd = "copyset" /\ Succeeded(ret)
    /\ ret.calls = <<[op |-> "Begin", err |-> Nil], [op |-> "Commit", err |-> Nil],
                     [op |-> "Close", err |-> Nil]>>
    /\ ~ret.exited /\ closed

\* a verify that counted failures ends the process with its transaction open
C34_ExitInTransaction ==
    /\ "calls" \in DOMAIN ret
    /\ ret.cmd = "verify" /\ ret.err = Nil /\ ret.fails > 0
    /\ ret.exited /\ boltTx = "ro" /\ ~closed


(***************************************************************************)
(* The operations that read.                                               *)
(***************************************************************************)
ReadCommands == {"verify", "list", "listsets", "verifysig"}

\* what the operation of a command that reads returns in a writable
\* transaction over the same buckets: its error and its count
InWritable(r) ==
    CASE r.cmd = "verify" ->
            <<VerifyFiles(fs, "rw", committed, r.names, r.fileset).err,
              VerifyFiles(fs, "rw", committed, r.names, r.fileset).fails>>
      [] r.cmd = "list" -> <<ListRecords("rw", committed, r.fileset).err, 0>>
      [] r.cmd = "listsets" -> <<Listsets("rw", committed).err, 0>>
      [] r.cmd = "verifysig" ->
            <<VerifySetSignature("rw", committed, r.fileset, r.pw).err, 0>>

NoTransactionError(err) ==
    \A i \in DOMAIN err : err[i] \notin {"db/080", "db/085"}

\* C35: VerifyFiles, ListRecords, Listsets and VerifySetSignature leave
\* every fileset and the signatures as they were, whatever they return, and
\* a read-only transaction is enough for them: they answer in it what they
\* answer in a writable one, never "transaction required" or "write
\* transaction required".
C35_ReadsLeaveStore ==
    [][ret'.cmd \in ReadCommands =>
          /\ committed' = committed
          /\ buckets' = buckets
          /\ <<ret'.err, ret'.fails>> = InWritable(ret')
          /\ NoTransactionError(ret'.err)]_vars

\* a verify that counted a failure, over a fileset that is stored still
C35_Witness ==
    /\ ret.cmd = "verify" /\ ret.err = Nil /\ ret.fails > 0
    /\ FilesetS \in DOMAIN committed /\ PathDA \in DOMAIN committed[FilesetS]

\* a verifysig that passed in its read-only transaction
C35_WitnessSignature ==
    /\ ret.cmd = "verifysig" /\ ret.err = Nil
    /\ ret.calls[1] = [op |-> "Begin", err |-> Nil]
    /\ HasSignature(FilesetS)

\* a list that failed
C35_WitnessError ==
    /\ ret.cmd = "list" /\ ret.err # Nil
    /\ FilesetT \in DOMAIN committed

\* a listsets that passed over two filesets
C35_WitnessSets ==
    /\ ret.cmd = "listsets" /\ ret.err = Nil
    /\ {FilesetS, FilesetT} \subseteq DOMAIN committed


(***************************************************************************)
(* A directory /d and a file /da next to it, whose name begins with the    *)
(* name of the directory.                                                  *)
(***************************************************************************)
SubtreeNext ==
    \/ \E recursive \in BOOLEAN :
          CmdAdd(<<PathD, PathDa>>, FilesetS, recursive, TRUE, FALSE, <<"size">>,
                 <<"modtime">>)
    \/ \E path \in {PathD, PathDA, PathDa} : CmdDelete(<<path>>, FilesetS)
    \/ \E path \in {PathD, PathDA, PathDa} : CmdVerify(<<path>>, FilesetS)
    \/ \E path \in {PathDA, PathDa} : DriftResize(path, MaxSize)

SpecSubtree == Init /\ [][SubtreeNext]_vars

\* k is the path p or lies beneath it in the hierarchy of directories
Within(k, p) == k = p \/ HasPrefix(k, p \o <<"/">>)

WithinSome(fileNames, k) == \E i \in 1..Len(fileNames) : Within(k, Abs(fileNames[i]))

\* the count of a verify that looks at the entries within each path
CountWithin(names, n) ==
    SumOver(1..Len(names),
            [i \in 1..Len(names) |->
                SumOver({k \in DOMAIN committed[n] : Within(k, Abs(names[i]))},
                        [k \in DOMAIN committed[n] |-> Contribution(n, k)])])

\* C36: a delete of the path P removes, and a verify of P counts, only the
\* entries whose path is P or lies beneath P in the hierarchy of
\* directories; the entry of /da is neither deleted by a delete of /d nor
\* counted by a verify of /d.
C36_SubtreePrecision ==
    [][/\ (ret'.cmd = "delete" /\ ret'.err = Nil /\ ~ret'.fatal) =>
              \A k \in DOMAIN committed[ret'.fileset] :
                  ~WithinSome(ret'.names, k) => k \in DOMAIN committed'[ret'.fileset]
       /\ (ret'.cmd = "verify" /\ ret'.err = Nil /\ ~ret'.fatal) =>
              ret'.fails = CountWithin(ret'.names, ret'.fileset)]_vars

\* a verify of /d that counted the failure of /da, the one path that changed
C36_SiblingCounted ==
    /\ ret.cmd = "verify" /\ ret.names = <<PathD>> /\ ret.err = Nil /\ ret.fails = 1
    /\ PathDa \in DOMAIN committed[FilesetS]
    /\ Contribution(FilesetS, PathDa) = 1
    /\ \A k \in DOMAIN committed[FilesetS] \ {PathDa} : Contribution(FilesetS, k) = 0

\* a delete or a verify of /d/a, a prefix of no other key, keeps to its path
C36_ExactPath ==
    [][/\ (ret'.cmd = "delete" /\ ret'.names = <<PathDA>> /\ ret'.err = Nil) =>
              DOMAIN committed'[FilesetS] = DOMAIN committed[FilesetS] \ {PathDA}
       /\ (ret'.cmd = "verify" /\ ret'.names = <<PathDA>> /\ ret'.err = Nil) =>
              ret'.fails = CountWithin(ret'.names, ret'.fileset)]_vars


(***************************************************************************)
(* Filesets that are signed, deleted and filled again.                     *)
(***************************************************************************)
OrphanNext ==
    \/ \E overwrite \in BOOLEAN :
          CmdAdd(<<PathDA>>, FilesetS, FALSE, overwrite, FALSE, <<"size">>, DefaultDirChecks)
    \/ \E fileset \in {FilesetS, FilesetT}, update \in BOOLEAN :
          CmdSign(fileset, "pw1", update)
    \/ \E fileset \in {FilesetS, FilesetT} : CmdDeleteSet(fileset)
    \/ CmdCopySet(FilesetS, FilesetT)
    \/ \E fileset \in {FilesetS, FilesetT}, pw \in Passwords : CmdVerifySig(fileset, pw)
    \/ DriftResize(PathDA, MaxSize)

SpecOrphan == Init /\ [][OrphanNext]_vars

\* the names that have a signature and no fileset
Orphans ==
    IF sigbucket \in DOMAIN committed
    THEN {n \in DOMAIN committed[sigbucket] : n \notin DOMAIN committed}
    ELSE {}

\* C37: every entry of the signatures is keyed by the name of a fileset
\* that is stored; after a deleteset of F no signature of F is left, so a
\* sign of F without the overwrite flag is not refused for a signature made
\* before F was deleted.
C37_NoOrphanSignatures ==
    /\ Orphans = {}
    /\ (ret.cmd = "deleteset" /\ ret.err = Nil /\ ~ret.fatal) => ~HasSignature(ret.fileset)

\* a fileset was deleted and its signature is stored still
C37_Orphan ==
    /\ ret.cmd = "deleteset" /\ ret.err = Nil
    /\ Orphans = {ret.fileset}

\* the fileset is stored again with other contents; a sign without the
\* overwrite flag is refused for the signature of the fileset that was
\* deleted
C37_SignRefused ==
    /\ ret.cmd = "sign" /\ ret.opts = <<FALSE>> /\ ret.err = <<"proc/150", "db/140">>
    /\ ret.fileset \in DOMAIN committed
    /\ ret.fileset \in DOMAIN signed
    /\ committed[ret.fileset] # signed[ret.fileset].content
    /\ SignatureIntact(ret.fileset)

\* verifysig of the fileset stored again opens the signature of the one
\* that was deleted and finds other contents
C37_StaleVerified ==
    /\ ret.cmd = "verifysig" /\ ret.err = Changed
    /\ ret.fileset \in DOMAIN signed
    /\ SignatureIntact(ret.fileset)
    /\ ret.pw = signed[ret.fileset].pw

\* while no fileset is deleted there is no signature without its fileset
C37_OrphansFromDelete ==
    [][ret'.cmd # "deleteset" => Orphans' \subseteq Orphans]_vars


(***************************************************************************)
(* The records add writes, under every flag and with check lists that      *)
(* repeat a name, spell it otherwise, or are refused.                      *)
(***************************************************************************)
WrittenFileChecks == {<<"size", "size">>, <<" Size", "SHA256">>, <<"">>}

WrittenDirChecks == {<<"Child ">>, <<"nocheck">>}

WrittenNext ==
    \/ \E fileNames \in {<<PathD>>, <<PathDA>>}, recursive \in BOOLEAN,
          overwrite \in BOOLEAN, skip \in BOOLEAN,
          filechecks \in WrittenFileChecks, dirchecks \in WrittenDirChecks :
          CmdAdd(fileNames, FilesetS, recursive, overwrite, skip, filechecks, dirchecks)
    \/ CmdVerify(<<>>, FilesetS)
    \/ DriftRetype(PathDA)

SpecWritten == Init /\ [][WrittenNext]_vars

NamesOf(checks) == {checks[i] : i \in 1..Len(checks)}

WellFormed(rec) ==
    /\ Len(rec.Checks) > 0
    /\ NamesOf(rec.Checks) \subseteq (IF rec.IsDir THEN DirCheckNames ELSE FileCheckNames)
    /\ DOMAIN rec.Data = NamesOf(rec.Checks)
    /\ \A name \in NamesOf(rec.Checks) : CheckerOf(rec, name) # ""

\* C38: every record add has stored has a list of checks that is not
\* empty and names only checks registered for its kind, and data with one
\* value for each name of the list; verify finds a checker for every check
\* of such a record.
C38_WellFormedRecords ==
    \A n \in DOMAIN committed :
        \A k \in DOMAIN committed[n] :
            /\ Unmarshal(committed[n][k]).ok
            /\ WellFormed(Unmarshal(committed[n][k]).rec)

\* a file recorded with a list that names size twice, a directory recorded
\* with a check that keeps no data, and a verify over them
C38_Witness ==
    /\ ret.cmd = "verify" /\ ret.names = <<>> /\ ret.err = Nil
    /\ {PathD, PathDA} \subseteq DOMAIN committed[FilesetS]
    /\ RecordOf(FilesetS, PathDA).Checks = <<"size", "size">>
    /\ DOMAIN RecordOf(FilesetS, PathDA).Data = {"size"}
    /\ RecordOf(FilesetS, PathD).Checks = <<"nocheck">>
    /\ DOMAIN RecordOf(FilesetS, PathD).Data = {"nocheck"}

\* a record of a file, kept by skip, whose path is a directory now: the
\* record names checks of files still
C38_WitnessKind ==
    /\ ret.cmd = "add" /\ ret.opts[3] /\ ret.err = Nil
    /\ PathDA \in DOMAIN committed[FilesetS]
    /\ ~RecordOf(FilesetS, PathDA).IsDir
    /\ fs[PathDA].kind = "dir"

====
